---------------------------- MODULE Spec2Model ----------------------------
(***************************************************************************)
(* A model of nova/objects/base.py: the versioned, change-tracking object  *)
(* base class NovaObject.                                                  *)
(*                                                                         *)
(* Entities live in a heap of object slots, so that aliasing between an    *)
(* entity and its copies, and between a parent and the nested entities it  *)
(* holds, is explicit.  A field of ObjectField type holds a reference to   *)
(* another slot, a field of ListOfObjectsField type a sequence of          *)
(* references.  Wire primitives are nested values without references.      *)
(***************************************************************************)
EXTENDS Integers, Sequences, FiniteSets, TLC

\* Number of object slots of the heap.
MaxObjs == 6
\* Number of operations changing the heap that follow the constructions.
MaxOps == 1

VARIABLES
    heap,    \* slot -> entity (or Free)
    wire,    \* the primitive produced by the last obj_to_primitive, or NoPrim
    last,    \* the last operation: its name, target, arguments, result, error
    nops,    \* operations performed so far
    registry,  \* NovaObjectRegistry: name -> registered versions
    latest,    \* the attributes of nova.objects: name -> newest version
    scopes     \* the with-blocks of obj_alternate_context and obj_as_admin
               \* that are open, innermost last

vars == <<heap, wire, last, nops, registry, latest, scopes>>
regvars == <<registry, latest>>

Ids == 1..MaxObjs

(***************************************************************************)
(* Versions.  A version string "X.Y" or "X.Y.Z" is a record of its parts;  *)
(* patch is <<>> when the string has no third component.                   *)
(***************************************************************************)
Ver(x, y) == [major |-> x, minor |-> y, patch |-> <<>>]
VerP(x, y, z) == [major |-> x, minor |-> y, patch |-> <<z>>]

convert_version_to_tuple(v) == <<v.major, v.minor>> \o v.patch

\* TupleLess with a fault: a proper prefix is greater
RECURSIVE TupleLessLongerFirst(_, _)
TupleLessLongerFirst(s, t) ==
    IF s = <<>> THEN FALSE
    ELSE IF t = <<>> THEN TRUE
    ELSE IF Head(s) # Head(t) THEN Head(s) < Head(t)
    ELSE TupleLessLongerFirst(Tail(s), Tail(t))

\* Python's ordering of tuples: lexicographic, a proper prefix is smaller.
RECURSIVE TupleLess(_, _)
TupleLess(s, t) ==
    IF t = <<>> THEN FALSE
    ELSE IF s = <<>> THEN TRUE
    ELSE IF Head(s) # Head(t) THEN Head(s) < Head(t)
    ELSE TupleLess(Tail(s), Tail(t))

(***************************************************************************)
(* Field values.  Unset marks a field whose backing attribute is absent;   *)
(* it is never a value a caller can assign.                                *)
(***************************************************************************)
Unset == [k |-> "unset"]
Null == [k |-> "null"]
IntV(n) == [k |-> "int", v |-> n]
Ref(i) == [k |-> "ref", id |-> i]
ListV(s) == [k |-> "list", ids |-> s]

UnspecifiedDefault == [k |-> "UnspecifiedDefault"]

NoCtx == "None"
Ctxs == {"ctx"}

(***************************************************************************)
(* The registered types.  Parent 1.4 composes Child 1.2 through an         *)
(* ObjectField and a ListOfObjectsField; Child composes Child.  Loose 1.1   *)
(* is a class outside the registry fixture that declares an ObjectField    *)
(* without a rule for it in obj_relationships.                             *)
(***************************************************************************)
TypeNames == {"Parent", "Child"}

\* fields, in the order the class declares them
FieldOrder(t) ==
    CASE t = "Parent" -> <<"a", "b", "child", "items">>
      [] t = "Loose" -> <<"n", "peer">>
      [] OTHER -> <<"x", "sub">>

Range(s) == {s[i] : i \in DOMAIN s}

fields(t) == Range(FieldOrder(t))

\* "int": IntegerField, "object": ObjectField, "list": ListOfObjectsField
FieldKind(t, f) ==
    CASE f \in {"a", "b", "x", "n"} -> "int"
      [] f \in {"child", "sub", "peer"} -> "object"
      [] f = "items" -> "list"

FieldDefault(t, f) == IF f \in {"a", "x"} THEN IntV(0) ELSE UnspecifiedDefault

ClassVersion(t) ==
    CASE t = "Parent" -> Ver(1, 4)
      [] t = "Loose" -> Ver(1, 1)
      [] OTHER -> Ver(1, 2)

\* obj_relationships: field -> <<(my_version, subobject_version), ...>>
obj_relationships(t) ==
    CASE t = "Parent" ->
           [child |-> << <<Ver(1, 2), Ver(1, 0)>>, <<Ver(1, 4), Ver(1, 2)>> >>,
            items |-> << <<Ver(1, 3), Ver(1, 1)>>, <<Ver(1, 4), Ver(1, 2)>> >>]
      [] t = "Loose" -> [f \in {} |-> <<>>]
      [] OTHER ->
           [sub |-> << <<Ver(1, 1), Ver(1, 1)>>, <<Ver(1, 2), Ver(1, 2)>> >>]

(***************************************************************************)
(* The heap.                                                               *)
(***************************************************************************)
Free == [type |-> "free"]

Live(h) == {i \in Ids : h[i].type # "free"}

FreeIds(h) == Ids \ Live(h)

\* the slot the next allocation takes (callers check FreeIds(h) # {})
Alloc(h) == CHOOSE i \in FreeIds(h) : \A j \in FreeIds(h) : i <= j

\* cls(): a new instance with no field set
NewObj(t, ctx) ==
    [type |-> t, version |-> ClassVersion(t), ctx |-> ctx,
     vals |-> [f \in fields(t) |-> Unset], changed |-> {}]

\* the slots a value refers to
RefsOf(v) ==
    CASE v.k = "ref" -> {v.id}
      [] v.k = "list" -> Range(v.ids)
      [] OTHER -> {}

Children(h, o) == UNION {RefsOf(h[o].vals[f]) : f \in fields(h[o].type)}

RECURSIVE Reach(_, _)
Reach(h, o) == {o} \cup UNION {Reach(h, c) : c \in Children(h, o)}

(***************************************************************************)
(* Attribute access.                                                       *)
(***************************************************************************)
\* obj_attr_is_set(attrname), for a declared field
obj_attr_is_set(h, o, f) == h[o].vals[f] # Unset

\* The property setter a registered class gets for each declared field:
\* records the field as changed and stores the value.
setattr(h, o, f, v) ==
    [h EXCEPT ![o].changed = @ \cup {f}, ![o].vals[f] = v]

\* NovaObject.__init__(context, **kwargs); kwargs is a function from the
\* names given to their values, applied in the order of todo
RECURSIVE InitKwargs(_, _, _, _)
InitKwargs(h, o, kwargs, todo) ==
    IF todo = <<>> THEN h
    ELSE LET key == Head(todo)
             h1 == IF key \in DOMAIN kwargs
                   THEN setattr(h, o, key, kwargs[key]) ELSE h
         IN InitKwargs(h1, o, kwargs, Tail(todo))

NovaObjectInit(h, o, t, ctx, kwargs) ==
    InitKwargs([h EXCEPT ![o] = NewObj(t, ctx)], o, kwargs, FieldOrder(t))

(***************************************************************************)
(* Change tracking.                                                        *)
(***************************************************************************)
\* obj_what_changed with a fault: nested changes are not propagated
WhatChangedOwnOnly(h, o) == h[o].changed

\* obj_what_changed(): the own changed fields, and every set field whose
\* value is a NovaObject that reports changes
RECURSIVE obj_what_changed(_, _)
obj_what_changed(h, o) ==
    h[o].changed \cup
    {f \in fields(h[o].type) :
        /\ obj_attr_is_set(h, o, f)
        /\ h[o].vals[f].k = "ref"
        /\ obj_what_changed(h, h[o].vals[f].id) # {}}

\* obj_get_changes() reads every changed field with getattr; reading an
\* unset field ends in obj_load_attr, which raises in the base class
obj_get_changes_error(h, o) ==
    IF \E f \in obj_what_changed(h, o) : ~obj_attr_is_set(h, o, f)
    THEN "NotImplementedError" ELSE "none"

\* the fields argument of obj_reset_changes: None, or a list of names
FieldsNone == [given |-> FALSE, names |-> <<>>]
FieldsList(s) == [given |-> TRUE, names |-> s]
\* Python's truth value of the argument: None and [] are both false
Truthy(flds) == flds.given /\ flds.names # <<>>

\* the last four lines of obj_reset_changes
ClearChanged(h, o, flds) ==
    IF Truthy(flds)
    THEN [h EXCEPT ![o].changed = @ \ Range(flds.names)]
    ELSE [h EXCEPT ![o].changed = {}]

\* obj_reset_changes(fields, recursive) on entity o; the result is the heap
\* and the error raised, if any (the effects made before it are kept).
\* ResetLoop is the loop over obj_get_changes(), ResetThings the loop over
\* the elements of a ListOfObjectsField value.
RECURSIVE obj_reset_changes(_, _, _, _)
RECURSIVE ResetLoop(_, _, _, _)
RECURSIVE ResetThings(_, _)

ResetThings(r, ids) ==
    IF r.err # "none" \/ ids = <<>> THEN r
    ELSE ResetThings(obj_reset_changes(r.heap, Head(ids), FieldsNone, TRUE),
                     Tail(ids))

ResetLoop(r, o, todo, flds) ==
    IF r.err # "none" \/ todo = <<>> THEN r
    ELSE LET f == Head(todo)
             h == r.heap
             value == h[o].vals[f]
             kind == FieldKind(h[o].type, f)
             r1 == IF Truthy(flds) /\ f \notin Range(flds.names) THEN r
                   ELSE IF ~obj_attr_is_set(h, o, f) THEN r
                   ELSE IF value = Null THEN r
                   ELSE IF kind = "object"
                        THEN obj_reset_changes(h, value.id, FieldsNone, TRUE)
                   ELSE IF kind = "list" THEN ResetThings(r, value.ids)
                   ELSE r
         IN ResetLoop(r1, o, Tail(todo), flds)

obj_reset_changes(h, o, flds, recursive) ==
    LET changes == obj_what_changed(h, o)
        todo == SelectSeq(FieldOrder(h[o].type), LAMBDA f : f \in changes)
        r0 == [heap |-> h, err |-> "none"]
        r1 == IF ~recursive THEN r0
              ELSE IF obj_get_changes_error(h, o) # "none"
                   THEN [heap |-> h, err |-> obj_get_changes_error(h, o)]
              ELSE ResetLoop(r0, o, todo, flds)
    IN IF r1.err # "none" THEN r1
       ELSE [heap |-> ClearChanged(r1.heap, o, flds), err |-> "none"]

(***************************************************************************)
(* Defaults.                                                               *)
(***************************************************************************)
\* SetDefault with a fault: the default is assigned also over a set field
SetDefaultAlways(h, o, attr) == setattr(h, o, attr, FieldDefault(h[o].type, attr))

\* the body of obj_set_defaults's loop after the check of the default
SetDefault(h, o, attr) ==
    IF ~obj_attr_is_set(h, o, attr)
    THEN setattr(h, o, attr, FieldDefault(h[o].type, attr))
    ELSE h

\* HasNoDefault with a fault: a set field is not checked
HasNoDefaultIfUnset(h, o, attr) ==
    /\ FieldDefault(h[o].type, attr) = UnspecifiedDefault
    /\ ~obj_attr_is_set(h, o, attr)

\* the check that raises ObjectActionError
HasNoDefault(h, o, attr) == FieldDefault(h[o].type, attr) = UnspecifiedDefault

RECURSIVE SetDefaultsLoop(_, _, _)
SetDefaultsLoop(h, o, attrs) ==
    IF attrs = <<>> THEN [heap |-> h, err |-> "none"]
    ELSE IF HasNoDefault(h, o, Head(attrs))
         THEN [heap |-> h, err |-> "ObjectActionError"]
    ELSE SetDefaultsLoop(SetDefault(h, o, Head(attrs)), o, Tail(attrs))

\* obj_set_defaults with a fault: every default is checked before the
\* first assignment
obj_set_defaults_checked_first(h, o, attrs) ==
    IF \E i \in DOMAIN attrs : HasNoDefault(h, o, attrs[i])
    THEN [heap |-> h, err |-> "ObjectActionError"]
    ELSE SetDefaultsLoop(h, o,
             IF attrs = <<>>
             THEN SelectSeq(FieldOrder(h[o].type),
                      LAMBDA f : FieldDefault(h[o].type, f)
                                    # UnspecifiedDefault)
             ELSE attrs)

\* obj_set_defaults(*attrs); attrs = <<>> is the call without arguments
obj_set_defaults(h, o, attrs) ==
    LET t == h[o].type
        all == SelectSeq(FieldOrder(t),
                         LAMBDA f : FieldDefault(t, f) # UnspecifiedDefault)
    IN SetDefaultsLoop(h, o, IF attrs = <<>> THEN all ELSE attrs)

(***************************************************************************)
(* Copies.  deepcopy keeps a memo of the entities already copied, so an    *)
(* entity referred to twice is copied once.  The state threaded through    *)
(* is [heap, memo, val]: val is the copy of the value just copied.         *)
(***************************************************************************)
\* DeepCopyValue with a fault: the value is shared, not copied
ShallowCopyValue(st, v) == [st EXCEPT !.val = v]

RECURSIVE DeepCopyObj(_, _)
RECURSIVE DeepCopyFields(_, _, _, _)
RECURSIVE DeepCopyList(_, _, _)

\* copy.deepcopy(x, memo) of an entity reference
DeepCopyRef(st, i) ==
    IF i \in DOMAIN st.memo THEN [st EXCEPT !.val = Ref(st.memo[i])]
    ELSE LET st1 == DeepCopyObj(st, i)
         IN [st1 EXCEPT !.memo = (i :> st1.val.id) @@ @]

DeepCopyList(st, ids, acc) ==
    IF ids = <<>> THEN [st EXCEPT !.val = ListV(acc)]
    ELSE LET st1 == DeepCopyRef(st, Head(ids))
         IN DeepCopyList(st1, Tail(ids), Append(acc, st1.val.id))

\* copy.deepcopy(getattr(self, name), memo)
DeepCopyValue(st, v) ==
    CASE v.k = "ref" -> DeepCopyRef(st, v.id)
      [] v.k = "list" -> DeepCopyList(st, v.ids, <<>>)
      [] OTHER -> [st EXCEPT !.val = v]

DeepCopyFields(st, o, n, todo) ==
    IF todo = <<>> THEN st
    ELSE LET name == Head(todo)
             st1 == IF obj_attr_is_set(st.heap, o, name)
                    THEN LET c == DeepCopyValue(st, st.heap[o].vals[name])
                         IN [c EXCEPT !.heap = setattr(c.heap, n, name, c.val)]
                    ELSE st
         IN DeepCopyFields(st1, o, n, Tail(todo))

\* NovaObject.__deepcopy__(memo); val is a reference to the copy
DeepCopyObj(st, o) ==
    LET n == Alloc(st.heap)
        h0 == [st.heap EXCEPT ![n] = NewObj(st.heap[o].type, st.heap[o].ctx)]
        st1 == DeepCopyFields([st EXCEPT !.heap = h0], o, n,
                              FieldOrder(st.heap[o].type))
    IN [st1 EXCEPT !.heap = [@ EXCEPT ![n].changed = st.heap[o].changed],
                   !.val = Ref(n)]

EmptyMemo == [i \in {} |-> 0]

\* obj_clone(): the heap with the copy, and the copy's slot
obj_clone(h, o) ==
    LET st == DeepCopyObj([heap |-> h, memo |-> EmptyMemo, val |-> Null], o)
    IN [heap |-> st.heap, id |-> st.val.id]

(***************************************************************************)
(* The registry and version compatibility.                                 *)
(***************************************************************************)
\* NovaObjectRegistry.obj_classes(): name -> versions, the highest first
obj_classes == registry

\* the registry once the classes of the entities have been registered
RegisteredClasses == [t \in TypeNames |-> <<ClassVersion(t)>>]

\* versionutils.is_compatible(requested_version, current_version)
is_compatible(requested, current) ==
    /\ requested.major = current.major
    /\ ~TupleLess(convert_version_to_tuple(current),
                  convert_version_to_tuple(requested))

NoMatch == [k |-> "none"]

\* CompatibleMatch with a fault: a later compatible class replaces the match
CompatibleMatchLast(compatible_match, objver, objclass) ==
    IF is_compatible(objver, objclass) THEN objclass ELSE compatible_match

\* the second test of obj_class_from_name's loop: compatible_match is set
\* once only
CompatibleMatch(compatible_match, objver, objclass) ==
    IF compatible_match = NoMatch /\ is_compatible(objver, objclass)
    THEN objclass ELSE compatible_match

RECURSIVE ClassLoop(_, _, _)
ClassLoop(classes, objver, compatible_match) ==
    IF classes = <<>> THEN compatible_match
    ELSE IF Head(classes) = objver THEN Head(classes)
    ELSE ClassLoop(Tail(classes), objver,
                   CompatibleMatch(compatible_match, objver, Head(classes)))

\* latest_ver with a fault: the last class of the list is reported
oldest_ver(classes) == classes[Len(classes)]

\* obj_classes[objname][0].VERSION
latest_ver(classes) == classes[1]

\* obj_class_from_name(objname, objver): the class found, or the error
\* UnknownClass with a fault: an unknown name is reported as a version
\* that is not supported
UnknownClassIncompatible(objname, objver) ==
    [err |-> "IncompatibleObjectVersion", objver |-> objver,
     supported |-> objver]

\* obj_class_from_name's raise for a name that is not registered
UnknownClass(objname, objver) == [err |-> "UnsupportedObjectError"]

obj_class_from_name(reg, objname, objver) ==
    IF objname \notin DOMAIN reg
    THEN UnknownClass(objname, objver)
    ELSE LET m == ClassLoop(reg[objname], objver, NoMatch)
         IN IF m # NoMatch THEN [err |-> "none", cls |-> m]
            ELSE [err |-> "IncompatibleObjectVersion", objver |-> objver,
                  supported |-> latest_ver(reg[objname])]

(***************************************************************************)
(* Backports.                                                              *)
(***************************************************************************)
None == [k |-> "none"]

\* BeforeMapping with a fault: a field older than its first mapping is kept
BeforeMappingKeepsFirst(rel, index) ==
    IF index = 1 THEN rel[1][2] ELSE rel[index - 1][2]

\* BeforeMapping with a fault: in a gap the newer mapping is taken
BeforeMappingNewer(rel, index) ==
    IF index = 1 THEN None ELSE rel[index][2]

\* the branch of obj_calculate_child_version for a target_version older
\* than the mapping at index (counted from 1)
BeforeMapping(rel, index) ==
    IF index = 1 THEN None ELSE rel[index - 1][2]

\* AtMapping with a fault: the mapping before the one matched is taken
AtMappingOlder(rel, index) ==
    IF index = 1 THEN rel[1][2] ELSE rel[index - 1][2]

\* the branch of obj_calculate_child_version for a target_version equal
\* to the mapping at index
AtMapping(rel, index) == rel[index][2]

RECURSIVE ChildVersionLoop(_, _, _)
ChildVersionLoop(rel, target, index) ==
    IF index > Len(rel) THEN rel[Len(rel)][2]
    ELSE LET my_version == convert_version_to_tuple(rel[index][1])
         IN IF TupleLess(target, my_version)
            THEN BeforeMapping(rel, index)
            ELSE IF target = my_version THEN AtMapping(rel, index)
            ELSE ChildVersionLoop(rel, target, index + 1)

\* obj_calculate_child_version(target_version, child) on an entity of type t
obj_calculate_child_version(t, target_version, child) ==
    ChildVersionLoop(obj_relationships(t)[child],
                     convert_version_to_tuple(target_version), 1)

\* Without with a fault: nothing is deleted
WithoutNothing(d, key) == d

\* del primitive[field]
Without(d, key) == [g \in DOMAIN d \ {key} |-> d[g]]

RECURSIVE obj_make_compatible(_, _, _, _)
RECURSIVE MakeCompatibleLoop(_, _, _, _, _)
RECURSIVE BackportList(_, _, _, _, _)

\* _do_backport's loop over the elements of a list field; r.val is the
\* list of element primitives
BackportList(h, ids, r, to_version, i) ==
    IF r.err # "none" \/ i > Len(ids) THEN r
    ELSE LET m == obj_make_compatible(h, ids[i], r.val[i].data, to_version)
         IN IF m.err # "none" THEN [r EXCEPT !.err = m.err]
            ELSE BackportList(h, ids,
                    [r EXCEPT !.val[i].data = m.data,
                              !.val[i].version = to_version],
                    to_version, i + 1)

\* _obj_make_obj_compatible(primitive, target_version, field)
obj_make_obj_compatible(h, o, primitive, target_version, field) ==
    LET child_version ==
            obj_calculate_child_version(h[o].type, target_version, field)
        obj == h[o].vals[field]
    IN IF child_version = None
       THEN [data |-> Without(primitive, field), err |-> "none"]
       ELSE IF obj = Null THEN [data |-> primitive, err |-> "none"]
       ELSE IF obj.k = "ref"
       THEN LET p == primitive[field].prim
                m == IF child_version # p.version
                     THEN obj_make_compatible(h, obj.id, p.data, child_version)
                     ELSE [data |-> p.data, err |-> "none"]
            IN IF m.err # "none" THEN [data |-> primitive, err |-> m.err]
               ELSE [data |-> [primitive EXCEPT
                                  ![field].prim.data = m.data,
                                  ![field].prim.version = child_version],
                     err |-> "none"]
       ELSE LET r == BackportList(h, obj.ids,
                        [val |-> primitive[field].prims, err |-> "none"],
                        child_version, 1)
            IN [data |-> [primitive EXCEPT ![field].prims = r.val],
                err |-> r.err]

\* NoRule with a fault: a field without a rule is passed over
NoRuleSkipped(r, key) == r

\* obj_make_compatible's raise for a set sub-object field that
\* obj_relationships does not list
NoRule(r, key) == [r EXCEPT !.err = "ObjectActionError"]

MakeCompatibleLoop(h, o, r, target_version, todo) ==
    IF r.err # "none" \/ todo = <<>> THEN r
    ELSE LET key == Head(todo)
             t == h[o].type
             r1 == IF FieldKind(t, key) \notin {"object", "list"} THEN r
                   ELSE IF ~obj_attr_is_set(h, o, key) THEN r
                   ELSE IF key \notin DOMAIN obj_relationships(t)
                        THEN NoRule(r, key)
                   ELSE obj_make_obj_compatible(h, o, r.data, target_version,
                                                key)
         IN MakeCompatibleLoop(h, o, r1, target_version, Tail(todo))

\* obj_make_compatible(primitive, target_version): the data made
\* compatible, or the error
obj_make_compatible(h, o, primitive, target_version) ==
    MakeCompatibleLoop(h, o, [data |-> primitive, err |-> "none"],
                       target_version, FieldOrder(h[o].type))

(***************************************************************************)
(* Dehydration.  A primitive is the record                                 *)
(*   [name, namespace, version, data]  or  [..., changes]                  *)
(* standing for the nova_object.* keys; data maps the names of the fields  *)
(* serialized to their primitive values.                                   *)
(***************************************************************************)
ObjP(p) == [k |-> "obj", prim |-> p]
ListP(ps) == [k |-> "list", prims |-> ps]

RECURSIVE obj_to_primitive(_, _, _)
RECURSIVE ListToPrimitive(_, _)

ListToPrimitive(h, ids) ==
    IF ids = <<>> THEN <<>>
    ELSE <<obj_to_primitive(h, Head(ids), None).prim>>
         \o ListToPrimitive(h, Tail(ids))

\* field.to_primitive(self, name, value)
FieldToPrimitive(h, v) ==
    CASE v.k = "ref" -> ObjP(obj_to_primitive(h, v.id, None).prim)
      [] v.k = "list" -> ListP(ListToPrimitive(h, v.ids))
      [] OTHER -> v

\* SerializedFields with a fault: a field holding None is left out
SerializedNonNull(h, o) ==
    {f \in fields(h[o].type) : obj_attr_is_set(h, o, f) /\ h[o].vals[f] # Null}

\* the fields obj_to_primitive serializes
SerializedFields(h, o) ==
    {f \in fields(h[o].type) : obj_attr_is_set(h, o, f)}

\* WithChanges with a fault: the changes key is written also when empty
WithChangesAlways(obj, changes) == obj @@ [changes |-> changes]

\* the last three lines of obj_to_primitive: the changes key is added only
\* if obj_what_changed() is not empty
WithChanges(obj, changes) ==
    IF changes # {} THEN obj @@ [changes |-> changes] ELSE obj

\* obj_to_primitive(target_version); target_version is None or a version
obj_to_primitive(h, o, target_version) ==
    LET primitive == [f \in SerializedFields(h, o) |->
                         FieldToPrimitive(h, h[o].vals[f])]
        m == IF target_version # None
             THEN obj_make_compatible(h, o, primitive, target_version)
             ELSE [data |-> primitive, err |-> "none"]
        obj == [name |-> h[o].type,
                namespace |-> "nova",
                version |-> IF target_version # None THEN target_version
                            ELSE h[o].version,
                data |-> m.data]
        changes == obj_what_changed(h, o)
    IN IF m.err # "none" THEN [err |-> m.err]
       ELSE [err |-> "none", prim |-> WithChanges(obj, changes)]

(***************************************************************************)
(* What obj_to_primitive writes to the entities.  Its assignments go to    *)
(* the dict primitive, which the call creates, and to the set changes of   *)
(* obj_what_changed; the entities are read with obj_attr_is_set and        *)
(* getattr on fields that are set.                                         *)
(***************************************************************************)
\* ChangesAdd with a fault: changes is self._changed_fields itself
ChangesAddAliased(h, o, field) == [h EXCEPT ![o].changed = @ \cup {field}]

\* changes.add(field) in obj_what_changed: changes is
\* set(self._changed_fields), a copy
ChangesAdd(h, o, field) == h

\* the entities after o.obj_what_changed()
RECURSIVE AfterWhatChanged(_, _)
RECURSIVE WhatChangedLoop(_, _, _)
WhatChangedLoop(h, o, todo) ==
    IF todo = <<>> THEN h
    ELSE LET field == Head(todo)
             h1 == IF obj_attr_is_set(h, o, field) /\ h[o].vals[field].k = "ref"
                   THEN LET sub == h[o].vals[field].id
                            h2 == AfterWhatChanged(h, sub)
                        IN IF obj_what_changed(h2, sub) # {}
                           THEN ChangesAdd(h2, o, field)
                           ELSE h2
                   ELSE h
         IN WhatChangedLoop(h1, o, Tail(todo))

AfterWhatChanged(h, o) == WhatChangedLoop(h, o, FieldOrder(h[o].type))

\* the entities after o.obj_to_primitive(target_version)
RECURSIVE AfterToPrimitive(_, _, _)
RECURSIVE AfterListToPrimitive(_, _)
RECURSIVE AfterFieldsToPrimitive(_, _, _)
AfterListToPrimitive(h, ids) ==
    IF ids = <<>> THEN h
    ELSE AfterListToPrimitive(AfterToPrimitive(h, Head(ids), None), Tail(ids))

AfterFieldsToPrimitive(h, o, todo) ==
    IF todo = <<>> THEN h
    ELSE LET name == Head(todo)
             v == h[o].vals[name]
             h1 == IF ~obj_attr_is_set(h, o, name) THEN h
                   ELSE IF v.k = "ref" THEN AfterToPrimitive(h, v.id, None)
                   ELSE IF v.k = "list" THEN AfterListToPrimitive(h, v.ids)
                   ELSE h
         IN AfterFieldsToPrimitive(h1, o, Tail(todo))

AfterToPrimitive(h, o, target_version) ==
    LET h1 == AfterFieldsToPrimitive(h, o, FieldOrder(h[o].type))
    IN IF obj_to_primitive(h, o, target_version).err # "none" THEN h1
       ELSE IF obj_what_changed(h1, o) # {}
       THEN AfterWhatChanged(AfterWhatChanged(h1, o), o)
       ELSE AfterWhatChanged(h1, o)

(***************************************************************************)
(* Hydration.  The result is [heap, id, err].                              *)
(***************************************************************************)
\* the entities a primitive describes, itself included
RECURSIVE PrimSize(_)
RECURSIVE PrimsSize(_)
PrimsSize(ps) == IF ps = <<>> THEN 0 ELSE PrimSize(Head(ps)) + PrimsSize(Tail(ps))

ValueSize(v) ==
    CASE v.k = "obj" -> PrimSize(v.prim)
      [] v.k = "list" -> PrimsSize(v.prims)
      [] OTHER -> 0

RECURSIVE SumSizes(_, _)
SumSizes(d, names) ==
    IF names = {} THEN 0
    ELSE LET f == CHOOSE x \in names : TRUE
         IN ValueSize(d[f]) + SumSizes(d, names \ {f})

PrimSize(p) == 1 + SumSizes(p.data, DOMAIN p.data)

RECURSIVE obj_from_primitive(_, _, _)
RECURSIVE HydrateLoop(_, _, _, _)
RECURSIVE HydrateList(_, _, _, _)

\* a list field's from_primitive; r.val collects the elements
HydrateList(r, prims, ctx, acc) ==
    IF r.err # "none" THEN r
    ELSE IF prims = <<>> THEN [r EXCEPT !.val = ListV(acc)]
    ELSE LET e == obj_from_primitive(r.heap, Head(prims), ctx)
         IN HydrateList([r EXCEPT !.heap = e.heap, !.err = e.err],
                        Tail(prims), ctx, Append(acc, e.id))

\* field.from_primitive(self, name, value): nested primitives are
\* hydrated with the context of the entity that holds them
FieldFromPrimitive(r, ctx, v) ==
    CASE v.k = "obj" ->
            LET e == obj_from_primitive(r.heap, v.prim, ctx)
            IN [r EXCEPT !.heap = e.heap, !.err = e.err, !.val = Ref(e.id)]
      [] v.k = "list" -> HydrateList(r, v.prims, ctx, <<>>)
      [] OTHER -> [r EXCEPT !.val = v]

\* the loop of _obj_from_primitive over self.fields
HydrateLoop(r, o, objdata, todo) ==
    IF r.err # "none" \/ todo = <<>> THEN r
    ELSE LET name == Head(todo)
             r1 == IF name \in DOMAIN objdata
                   THEN LET c == FieldFromPrimitive(r, r.heap[o].ctx,
                                                    objdata[name])
                        IN IF c.err # "none" THEN c
                           ELSE [c EXCEPT !.heap = setattr(c.heap, o, name, c.val)]
                   ELSE r
         IN HydrateLoop(r1, o, objdata, Tail(todo))

\* HydratedChanges with a fault: the markers are taken as they come
HydratedChangesUnfiltered(t, primitive) ==
    IF "changes" \in DOMAIN primitive THEN primitive.changes ELSE {}

\* the changed set _obj_from_primitive leaves
HydratedChanges(t, primitive) ==
    LET changes == IF "changes" \in DOMAIN primitive
                   THEN primitive.changes ELSE {}
    IN {x \in changes : x \in fields(t)}

\* InstanceVersion with a fault: the instance keeps the VERSION of its
\* class
InstanceVersionOfClass(cls_version, objver) == cls_version

\* self.VERSION = objver in _obj_from_primitive, on an instance of the
\* class registered with cls_version
InstanceVersion(cls_version, objver) == objver

\* cls._obj_from_primitive(context, objver, primitive), cls named t
ObjFromPrimitiveOfClass(h, t, context, objver, primitive) ==
    LET o == Alloc(h)
        cls == obj_class_from_name(obj_classes, t, objver).cls
        h0 == [h EXCEPT ![o] = [NewObj(t, context) EXCEPT
                                   !.version = InstanceVersion(cls, objver)]]
        r == HydrateLoop([heap |-> h0, err |-> "none", val |-> Null], o,
                         primitive.data, FieldOrder(t))
    IN IF r.err # "none" THEN [heap |-> h, id |-> 0, err |-> r.err]
       ELSE [heap |-> [r.heap EXCEPT
                          ![o].changed = HydratedChanges(t, primitive)],
             id |-> o, err |-> "none"]

\* NovaObject.obj_from_primitive(primitive, context)
obj_from_primitive(h, primitive, context) ==
    IF primitive.namespace # "nova"
    THEN [heap |-> h, id |-> 0, err |-> "UnsupportedObjectError"]
    ELSE LET c == obj_class_from_name(obj_classes, primitive.name,
                                      primitive.version)
         IN IF c.err # "none"
            THEN [heap |-> h, id |-> 0, err |-> c.err, exc |-> c]
            ELSE ObjFromPrimitiveOfClass(h, primitive.name, context,
                                         primitive.version, primitive)

(***************************************************************************)
(* The callers' inputs.                                                    *)
(***************************************************************************)
LiveOf(h, t) == {i \in Live(h) : h[i].type = t}

\* lists of entities of type t a caller may assign: of zero, one or two
\* elements
ListsOf(h, t) ==
    {<<>>} \cup {<<c>> : c \in LiveOf(h, t)}
           \cup {<<c, d>> : c, d \in LiveOf(h, t)}

\* the entities from which o is reached
Holders(h, o) == {i \in Live(h) : o \in Reach(h, i)}

\* the values a caller may assign to field f of entity o; an entity that
\* holds o is not assigned, so that the heap stays free of cycles
Assignable(h, o, f) ==
    CASE f \in {"a", "x"} -> {IntV(1)}
      [] f = "b" -> {Null, IntV(1)}
      [] f \in {"child", "sub"} ->
            {Null} \cup {Ref(c) : c \in LiveOf(h, "Child") \ Holders(h, o)}
      [] f = "items" -> {ListV(s) : s \in ListsOf(h, "Child")}

\* the keyword arguments a caller may give the constructor of type t:
\* the fields named, each with its value
KwargsOf(h, t) ==
    IF t = "Child"
    THEN {[f \in D |-> IF f = "x" THEN IntV(1) ELSE Ref(c)] :
             D \in SUBSET {"x", "sub"}, c \in LiveOf(h, "Child") \cup {0}}
    ELSE {[f \in D |-> IF f = "items" THEN ListV(s)
                       ELSE IF c = 0 THEN Null ELSE Ref(c)] :
             D \in SUBSET {"child", "items"},
             c \in LiveOf(h, "Child") \cup {0},
             s \in {l \in ListsOf(h, "Child") :
                       l # <<>> /\ (Len(l) = 2 => l[1] < l[2])}}

\* no reference to slot 0 (no entity)
ValidKwargs(h, t) ==
    {kw \in KwargsOf(h, t) : \A f \in DOMAIN kw : 0 \notin RefsOf(kw[f])}

\* the attrs of obj_set_defaults: none, one field, or two of them
AttrsOf(t) ==
    {<<>>} \cup {<<f>> : f \in fields(t)}
           \cup {s \in {<<f, g>> : f, g \in fields(t) \cap {"a", "b", "x"}} :
                    s[1] # s[2]}

\* the fields filter of obj_reset_changes: None, the empty list, one
\* field, or all fields
FiltersOf(t) ==
    {FieldsNone, FieldsList(<<>>), FieldsList(FieldOrder(t))}
        \cup {FieldsList(<<f>>) : f \in fields(t)}

Targets == {None, Ver(1, 1), Ver(1, 3), Ver(1, 5)}

NoPrim == [k |-> "none"]

(***************************************************************************)
(* The operations.  The caller constructs entities, then operates on       *)
(* them; a primitive it serializes is hydrated before anything else is     *)
(* done.  nops counts the operations that change the heap.                 *)
(***************************************************************************)
Op(name, o, arg, err, ret) ==
    [op |-> name, obj |-> o, arg |-> arg, err |-> err, ret |-> ret]

Init ==
    /\ heap = [i \in Ids |-> Free]
    /\ wire = NoPrim
    /\ last = Op("start", 0, None, "none", None)
    /\ nops = 0
    /\ registry = RegisteredClasses
    /\ latest = [t \in TypeNames |-> ClassVersion(t)]
    /\ scopes = <<>>

\* a construction leaves room for a copy of everything constructed; the
\* entities are constructed inside out, a Parent last
CanConstruct ==
    /\ 2 * (Cardinality(Live(heap)) + 1) <= MaxObjs
    /\ LiveOf(heap, "Parent") = {}
    /\ nops = 0

\* o = cls(context, **kwargs)
Construct ==
    /\ CanConstruct
    /\ wire = NoPrim
    /\ \E t \in TypeNames, ctx \in Ctxs :
         \E kwargs \in ValidKwargs(heap, t) :
            LET o == Alloc(heap)
            IN /\ heap' = NovaObjectInit(heap, o, t, ctx, kwargs)
               /\ last' = Op("init", o, kwargs, "none", None)
    /\ UNCHANGED <<wire, nops>>
    /\ UNCHANGED <<regvars, scopes>>

\* o.f = v
SetAttr ==
    /\ nops < MaxOps
    /\ wire = NoPrim
    /\ \E o \in Live(heap) :
         \E f \in fields(heap[o].type) :
            \E v \in Assignable(heap, o, f) :
               /\ heap' = setattr(heap, o, f, v)
               /\ last' = Op("setattr", o, [f |-> f, v |-> v], "none", None)
    /\ UNCHANGED wire
    /\ nops' = nops + 1
    /\ UNCHANGED <<regvars, scopes>>

\* o.obj_set_defaults(*attrs)
SetDefaults ==
    /\ nops < MaxOps
    /\ wire = NoPrim
    /\ \E o \in Live(heap) :
         \E attrs \in AttrsOf(heap[o].type) :
            LET r == obj_set_defaults(heap, o, attrs)
            IN /\ heap' = r.heap
               /\ last' = Op("obj_set_defaults", o, attrs, r.err, None)
    /\ UNCHANGED wire
    /\ nops' = nops + 1
    /\ UNCHANGED <<regvars, scopes>>

\* o.obj_reset_changes(fields, recursive)
ResetChanges ==
    /\ nops < MaxOps
    /\ wire = NoPrim
    /\ \E o \in Live(heap), recursive \in BOOLEAN :
         \E flds \in FiltersOf(heap[o].type) :
            LET r == obj_reset_changes(heap, o, flds, recursive)
            IN /\ heap' = r.heap
               /\ last' = Op("obj_reset_changes", o,
                             [fields |-> flds, recursive |-> recursive],
                             r.err, None)
    /\ UNCHANGED wire
    /\ nops' = nops + 1
    /\ UNCHANGED <<regvars, scopes>>

\* n = o.obj_clone()
Clone ==
    /\ nops < MaxOps
    /\ wire = NoPrim
    /\ \E o \in Live(heap) :
         /\ Cardinality(Reach(heap, o)) <= Cardinality(FreeIds(heap))
         /\ LET r == obj_clone(heap, o)
            IN /\ heap' = r.heap
               /\ last' = Op("obj_clone", o, None, "none", r.id)
    /\ UNCHANGED wire
    /\ nops' = nops + 1
    /\ UNCHANGED <<regvars, scopes>>

\* wire = o.obj_to_primitive(target_version)
ToPrimitive ==
    /\ nops < MaxOps
    /\ wire = NoPrim
    /\ \E o \in Live(heap), target \in Targets :
         LET r == obj_to_primitive(heap, o, target)
         IN /\ r.err = "none"
            /\ wire' = r.prim
            /\ heap' = AfterToPrimitive(heap, o, target)
            /\ last' = Op("obj_to_primitive", o, target, r.err, None)
    /\ UNCHANGED nops
    /\ UNCHANGED <<regvars, scopes>>

\* n = NovaObject.obj_from_primitive(wire, context)
FromPrimitive ==
    /\ wire # NoPrim
    /\ PrimSize(wire) <= Cardinality(FreeIds(heap))
    /\ \E ctx \in Ctxs \cup {NoCtx} :
         LET r == obj_from_primitive(heap, wire, ctx)
         IN /\ heap' = r.heap
            /\ last' = Op("obj_from_primitive", r.id,
                          [src |-> last.obj, target |-> last.arg,
                           context |-> ctx],
                          r.err, None)
    /\ wire' = NoPrim
    /\ nops' = nops + 1
    /\ UNCHANGED <<regvars, scopes>>

Next ==
    \/ Construct
    \/ SetAttr
    \/ SetDefaults
    \/ ResetChanges
    \/ Clone
    \/ ToPrimitive
    \/ FromPrimitive

Spec == Init /\ [][Next]_vars

(***************************************************************************)
(* Backports on their own.  The entities are a Child, a Child that may     *)
(* hold it and a Parent that may hold both; a Child may have been          *)
(* hydrated from a primitive of an older version, whose version it then    *)
(* reports.  The caller serializes any of them for any target version, or  *)
(* asks for the version of a composed field.                               *)
(***************************************************************************)
ChildVersions == {Ver(1, 1), Ver(1, 2)}

BackportTargets ==
    {Ver(1, 0), Ver(1, 1), Ver(1, 2), Ver(1, 3), Ver(1, 4), Ver(1, 5)}

\* cls(context, **kwargs), or an entity hydrated with that content from a
\* primitive of version objver
EntityOfVersion(h, t, kwargs, objver) ==
    LET o == Alloc(h)
    IN [NovaObjectInit(h, o, t, "ctx", kwargs) EXCEPT ![o].version = objver]

BackportHeaps ==
    {EntityOfVersion(EntityOfVersion(EntityOfVersion(
            [i \in Ids |-> Free], "Child", k1, v1),
                                 "Child", k2, v2),
                 "Parent", k3, ClassVersion("Parent")) :
        k1 \in {k \in KwargsOf([i \in Ids |-> Free], "Child") :
                    "sub" \notin DOMAIN k},
        v1 \in ChildVersions,
        k2 \in {k \in KwargsOf([i \in Ids |-> IF i = 1 THEN NewObj("Child", "ctx")
                                             ELSE Free], "Child") :
                    "sub" \in DOMAIN k => k["sub"] = Ref(1)},
        v2 \in ChildVersions,
        k3 \in {k \in KwargsOf([i \in Ids |-> IF i \in {1, 2}
                                             THEN NewObj("Child", "ctx")
                                             ELSE Free], "Parent") :
                    "items" \in DOMAIN k => k["items"] # ListV(<<1>>)}}

InitBackport ==
    /\ heap \in BackportHeaps
    /\ wire = NoPrim
    /\ last = Op("start", 0, None, "none", None)
    /\ nops = 0
    /\ registry = RegisteredClasses
    /\ latest = [t \in TypeNames |-> ClassVersion(t)]
    /\ scopes = <<>>

\* wire = o.obj_to_primitive(target_version)
BackportTo ==
    /\ \E o \in Live(heap), target \in BackportTargets \cup {None} :
         LET r == obj_to_primitive(heap, o, target)
         IN /\ wire' = IF r.err = "none" THEN r.prim ELSE NoPrim
            /\ heap' = AfterToPrimitive(heap, o, target)
            /\ last' = Op("obj_to_primitive", o, target, r.err, None)
    /\ UNCHANGED nops
    /\ UNCHANGED <<regvars, scopes>>

\* o.obj_calculate_child_version(target_version, child)
CalculateChildVersion ==
    /\ \E o \in Live(heap), target \in BackportTargets :
         \E child \in DOMAIN obj_relationships(heap[o].type) :
            last' = Op("obj_calculate_child_version", o,
                       [target_version |-> target, child |-> child], "none",
                       obj_calculate_child_version(heap[o].type, target,
                                                   child))
    /\ wire' = NoPrim
    /\ UNCHANGED <<heap, nops>>
    /\ UNCHANGED <<regvars, scopes>>

NextBackport ==
    \/ BackportTo
    \/ CalculateChildVersion

SpecBackport == InitBackport /\ [][NextBackport]_vars

(***************************************************************************)
(* The registry on its own.  Classes are registered in any order; names    *)
(* and versions are resolved and primitives hydrated in between.           *)
(***************************************************************************)
\* Number of registrations.
MaxRegs == 3

\* VersionedObjectRegistry._register_class: a class of a version already
\* registered replaces it, a newer one is inserted before the first older
\* one, an older one is appended
RECURSIVE InsertClass(_, _)
InsertClass(classes, ver) ==
    IF classes = <<>> THEN <<ver>>
    ELSE IF Head(classes) = ver THEN classes
    ELSE IF TupleLess(convert_version_to_tuple(Head(classes)),
                      convert_version_to_tuple(ver))
         THEN <<ver>> \o classes
    ELSE <<Head(classes)>> \o InsertClass(Tail(classes), ver)

register_class(reg, name, ver) ==
    IF name \in DOMAIN reg
    THEN [reg EXCEPT ![name] = InsertClass(@, ver)]
    ELSE (name :> <<ver>>) @@ reg

\* registration_hook with a fault: the class just registered is the latest
registration_hook_cls(reg, name, ver) == ver

\* registration_hook(cls, index): the class to set as nova.objects.<name>
registration_hook(reg, name, ver) == reg[name][1]

\* the classes registered: versions of Child, and the Parent
Registrations ==
    {<<"Child", v>> : v \in {Ver(1, 0), Ver(1, 3), Ver(1, 4), Ver(2, 0)}}
        \cup {<<"Parent", ClassVersion("Parent")>>}

\* the names and versions asked for
RequestNames == {"Child", "Ghost"}
RequestVersions ==
    {Ver(1, 0), Ver(1, 2), Ver(1, 3), VerP(1, 3, 1), Ver(1, 5), Ver(2, 0)}

NoData == [f \in {} |-> Null]

\* the primitives received: of an entity without nested entities
FlatPrimitives(namespaces, versions) ==
    {[name |-> n, namespace |-> ns, version |-> v, data |-> d] :
        n \in RequestNames, ns \in namespaces, v \in versions,
        d \in {NoData, [x |-> IntV(1)]}}

\* ... or of a Child holding one
Primitives ==
    FlatPrimitives({"nova", "other"}, RequestVersions)
        \cup {[name |-> "Child", namespace |-> "nova", version |-> v,
               data |-> [sub |-> ObjP(p)]] :
                  v \in RequestVersions,
                  p \in {q \in FlatPrimitives({"nova"}, {Ver(1, 0), Ver(2, 0)}) :
                            q.data = NoData}}

InitRegistry ==
    /\ heap = [i \in Ids |-> Free]
    /\ wire = NoPrim
    /\ last = Op("start", 0, None, "none", None)
    /\ nops = 0
    /\ registry = [n \in {} |-> <<>>]
    /\ latest = [n \in {} |-> None]
    /\ scopes = <<>>

\* NovaObjectRegistry.register(cls)
Register ==
    /\ nops < MaxRegs
    /\ \E c \in Registrations :
         /\ registry' = register_class(registry, c[1], c[2])
         /\ latest' = (c[1] :> registration_hook(registry', c[1], c[2]))
                          @@ latest
         /\ last' = Op("register", 0, [name |-> c[1], version |-> c[2]],
                       "none", None)
    /\ nops' = nops + 1
    /\ UNCHANGED <<heap, wire, scopes>>

\* NovaObject.obj_class_from_name(objname, objver)
ClassFromName ==
    /\ \E objname \in RequestNames, objver \in RequestVersions :
         LET r == obj_class_from_name(obj_classes, objname, objver)
         IN last' = Op("obj_class_from_name", 0,
                       [objname |-> objname, objver |-> objver], r.err, r)
    /\ UNCHANGED <<heap, wire, nops>>
    /\ UNCHANGED <<regvars, scopes>>

\* NovaObject.obj_from_primitive(primitive, context), the first entity
\* this process hydrates
HydrateReceived ==
    /\ Live(heap) = {}
    /\ \E primitive \in Primitives :
         LET r == obj_from_primitive(heap, primitive, "ctx")
         IN /\ heap' = r.heap
            /\ last' = Op("obj_from_primitive", r.id,
                          [primitive |-> primitive, context |-> "ctx"],
                          r.err,
                          IF "exc" \in DOMAIN r THEN r.exc ELSE None)
    /\ UNCHANGED <<wire, nops>>
    /\ UNCHANGED <<regvars, scopes>>

\* primitives of a Child whose data holds a key the class does not declare
\* and whose changes name it
MarkedPrimitives ==
    LET plain == {[name |-> "Child", namespace |-> "nova", version |-> v,
                   data |-> d] :
                     v \in {Ver(1, 0), Ver(1, 3)},
                     d \in {NoData, [x |-> IntV(1)], [bogus |-> IntV(7)],
                            [x |-> IntV(1), bogus |-> IntV(7)],
                            [sub |-> ObjP([name |-> "Child",
                                           namespace |-> "nova",
                                           version |-> Ver(1, 0),
                                           data |-> [x |-> IntV(1)],
                                           changes |-> {"x"}])]}}
    IN plain \cup {p @@ [changes |-> c] :
                      p \in plain, c \in SUBSET {"x", "bogus"}}

\* NovaObject.obj_from_primitive(primitive, context) on such a primitive
HydrateMarked ==
    /\ Live(heap) = {}
    /\ \E primitive \in MarkedPrimitives, context \in Ctxs \cup {NoCtx} :
         LET r == obj_from_primitive(heap, primitive, context)
         IN /\ heap' = r.heap
            /\ last' = Op("obj_from_primitive", r.id,
                          [primitive |-> primitive, context |-> context],
                          r.err,
                          IF "exc" \in DOMAIN r THEN r.exc ELSE None)
    /\ UNCHANGED <<wire, nops>>
    /\ UNCHANGED <<regvars, scopes>>

\* obj_from_primitive(primitive, context).obj_to_primitive(): the entity
\* just hydrated is serialized again; ret keeps the primitive received
SerializeHydrated ==
    /\ last.op = "obj_from_primitive"
    /\ last.err = "none"
    /\ LET r == obj_to_primitive(heap, last.obj, None)
       IN /\ wire' = r.prim
          /\ heap' = AfterToPrimitive(heap, last.obj, None)
          /\ last' = Op("obj_to_primitive", last.obj, None, r.err,
                        [primitive |-> last.arg.primitive])
    /\ UNCHANGED nops
    /\ UNCHANGED <<regvars, scopes>>

NextRegistry ==
    \/ Register
    \/ ClassFromName
    \/ HydrateReceived
    \/ HydrateMarked
    \/ SerializeHydrated

SpecRegistry == InitRegistry /\ [][NextRegistry]_vars

(***************************************************************************)
(* The serializer.  Besides entities, primitives, integers and None, the   *)
(* values it is given are the containers of Python: lists, tuples, sets    *)
(* and dicts with string keys.  A dict that has the nova_object.name key   *)
(* is a primitive, ObjP.                                                   *)
(***************************************************************************)
PyList(s) == [k |-> "pylist", items |-> s]
PyTuple(s) == [k |-> "pytuple", items |-> s]
PySet(S) == [k |-> "pyset", elems |-> S]
PyDict(d) == [k |-> "pydict", map |-> d]

\* isinstance(entity, (tuple, list, set, dict))
IsIterable(v) == v.k \in {"pylist", "pytuple", "pyset", "pydict"}

\* the order in which a set or the keys of a dict are iterated
RECURSIVE IterationOrder(_)
IterationOrder(S) ==
    IF S = {} THEN <<>>
    ELSE LET x == CHOOSE y \in S : TRUE
         IN <<x>> \o IterationOrder(S \ {x})

\* the values iterated
ValuesOf(v) ==
    CASE v.k = "pyset" -> IterationOrder(v.elems)
      [] v.k = "pydict" ->
            LET keys == IterationOrder(DOMAIN v.map)
            IN [i \in 1..Len(keys) |-> v.map[keys[i]]]
      [] OTHER -> v.items

\* IterableClass with a fault: a set stays a set
IterableClassKept(k) == k

\* iterable = values.__class__, list in the place of set
IterableClass(k) == IF k = "pyset" THEN "pylist" ELSE k

\* the container _process_iterable returns: of the class of values, with
\* the items processed, under the keys of values if it is a dict
Rebuilt(values, items) ==
    LET iterable == IterableClass(values.k)
    IN CASE iterable = "pydict" ->
              LET keys == IterationOrder(DOMAIN values.map)
              IN PyDict([key \in DOMAIN values.map |->
                           items[CHOOSE i \in 1..Len(keys) : keys[i] = key]])
         [] iterable = "pyset" -> PySet(Range(items))
         [] iterable = "pytuple" -> PyTuple(items)
         [] OTHER -> PyList(items)

\* serialize_entity(context, entity)
RECURSIVE serialize_entity(_, _)
RECURSIVE SerializeItems(_, _)

SerializeItems(h, items) ==
    IF items = <<>> THEN <<>>
    ELSE <<serialize_entity(h, Head(items))>> \o SerializeItems(h, Tail(items))

serialize_entity(h, entity) ==
    IF IsIterable(entity)
    THEN Rebuilt(entity, SerializeItems(h, ValuesOf(entity)))
    ELSE IF entity.k = "ref"
    THEN ObjP(obj_to_primitive(h, entity.id, None).prim)
    ELSE entity

\* conductor.object_backport(context, objprim, target): the conductor
\* answers with the entity at the version asked for; of its data the
\* fields that are no entities are kept
BackportReply(objprim, target) ==
    [name |-> objprim.name, namespace |-> objprim.namespace,
     version |-> target,
     data |-> [f \in {g \in DOMAIN objprim.data :
                          objprim.data[g].k \notin {"obj", "list"}} |->
                  objprim.data[f]]]

object_backport(r, context, objprim, target) ==
    LET b == obj_from_primitive(r.heap, BackportReply(objprim, target),
                                context)
    IN [heap |-> b.heap, err |-> b.err,
        val |-> IF b.err = "none" THEN Ref(b.id) ELSE Null,
        asked |-> Append(r.asked, [objprim |-> objprim, target |-> target]),
        tried |-> r.tried]

\* objver.count('.') == 2, with a fault: never so
HasPatchNever(objver) == FALSE

\* objver.count('.') == 2
HasPatch(objver) == objver.patch # <<>>

\* '.'.join(objver.split('.')[:2])
Truncated(objver) == Ver(objver.major, objver.minor)

\* Caught with a fault: every exception is caught
CaughtAny(err) == TRUE

\* _process_object's except clause
Caught(err) == err = "IncompatibleObjectVersion"

\* _process_object(context, objprim); r.tried lists the versions with
\* which hydration was tried, r.asked what the conductor was asked
RECURSIVE process_object(_, _, _)
process_object(r, context, objprim) ==
    LET o == obj_from_primitive(r.heap, objprim, context)
        r1 == [r EXCEPT !.tried = Append(@, objprim.version)]
    IN IF o.err = "none"
       THEN [r1 EXCEPT !.heap = o.heap, !.val = Ref(o.id)]
       ELSE IF ~Caught(o.err)
       THEN [r1 EXCEPT !.err = o.err]
       ELSE IF HasPatch(objprim.version)
       THEN process_object(r1, context,
               [objprim EXCEPT !.version = Truncated(objprim.version)])
       ELSE LET supported == IF objprim.name \in DOMAIN obj_classes
                             THEN obj_classes[objprim.name] ELSE <<>>
            IN IF supported # <<>>
               THEN object_backport(r1, context, objprim, supported[1])
               ELSE [r1 EXCEPT !.err = o.err]

\* deserialize_entity(context, entity)
RECURSIVE deserialize_entity(_, _, _)
RECURSIVE DeserializeItems(_, _, _, _)

DeserializeItems(r, context, items, acc) ==
    IF r.err # "none" THEN r
    ELSE IF items = <<>> THEN [r EXCEPT !.val = acc]
    ELSE LET d == deserialize_entity(r, context, Head(items))
         IN DeserializeItems(d, context, Tail(items), Append(acc, d.val))

deserialize_entity(r, context, entity) ==
    IF entity.k = "obj" THEN process_object(r, context, entity.prim)
    ELSE IF IsIterable(entity)
    THEN LET d == DeserializeItems(r, context, ValuesOf(entity), <<>>)
         IN IF d.err # "none" THEN d
            ELSE [d EXCEPT !.val = Rebuilt(entity, d.val)]
    ELSE [r EXCEPT !.val = entity]

\* a deserialization that starts on heap h
Deserializing(h) ==
    [heap |-> h, err |-> "none", val |-> Null, asked |-> <<>>, tried |-> <<>>]

(***************************************************************************)
(* Remotable instance methods.  The methods of the entities are save(),    *)
(* which resets the changes, and refresh(), which assigns the integer      *)
(* field; the indirection transport answers with any of a few updates.     *)
(***************************************************************************)
Methods == {"save", "refresh"}

\* the integer field the methods and the server work on
CounterField(t) == IF t = "Parent" THEN "a" ELSE "x"

\* fn(self, *args, **kwargs): the heap it leaves
LocalImplementation(h, o, method) ==
    IF method = "save" THEN obj_reset_changes(h, o, FieldsNone, FALSE).heap
    ELSE setattr(h, o, CounterField(h[o].type), IntV(2))

\* the updates a server may report: a map from field names, and from
\* 'obj_what_changed', the names the server found changed
NoUpdates == [k \in {} |-> Null]

UpdatesFor(t) ==
    LET f == CounterField(t)
        g == IF t = "Parent" THEN "child" ELSE "sub"
    IN {NoUpdates,
        (f :> IntV(2)),
        (f :> IntV(2)) @@ ("obj_what_changed" :> {f}),
        ("bogus" :> IntV(9)) @@ (g :> Null),
        ("obj_what_changed" :> {g})}

\* key in self.fields, with a fault: never so
DeclaredFieldNever(t, key) == FALSE

\* key in self.fields
DeclaredField(t, key) == key \in fields(t)

\* set(updates.get('obj_what_changed', [])), with a fault: the names of
\* the updates when the server reports none
ReportedChangesOrKeys(updates) ==
    IF "obj_what_changed" \in DOMAIN updates
    THEN updates["obj_what_changed"] ELSE DOMAIN updates

\* set(updates.get('obj_what_changed', []))
ReportedChanges(updates) ==
    IF "obj_what_changed" \in DOMAIN updates
    THEN updates["obj_what_changed"] ELSE {}

\* the loop of the wrapper over the updates
RECURSIVE ApplyUpdates(_, _, _, _)
ApplyUpdates(h, o, updates, keys) ==
    IF keys = {} THEN h
    ELSE LET key == CHOOSE k \in keys : TRUE
             h1 == IF DeclaredField(h[o].type, key)
                   THEN setattr(h, o, key, updates[key]) ELSE h
         IN ApplyUpdates(h1, o, updates, keys \ {key})

\* args and isinstance(args[0], context.RequestContext), with a fault:
\* tested only on an entity that has a context
ContextArgumentIfBound(h, o, context_given) ==
    context_given /\ h[o].ctx # NoCtx

\* args and isinstance(args[0], context.RequestContext)
ContextArgument(h, o, context_given) == context_given

\* self._context is None, with a fault: never so
OrphanedNever(h, o) == FALSE

\* self._context is None
Orphaned(h, o) == h[o].ctx = NoCtx

\* the wrapper of a remotable method called on entity o: context_given
\* says whether the first positional argument is a RequestContext,
\* indirection whether NovaObject.indirection_api is configured.  The
\* result tells what was dispatched.
\* ReturnForwarded with a fault: after the forwarded call the wrapper goes
\* on to the local implementation
ReturnForwardedFallsThrough(r, o, method) ==
    [r EXCEPT !.heap = LocalImplementation(r.heap, o, method),
              !.dispatched = Append(@, [to |-> "fn", objinst |-> o,
                                        objmethod |-> method]),
              !.result = "local"]

\* return result: the last statement of the branch that forwards
ReturnForwarded(r, o, method) == r

remotable(h, o, method, context_given, indirection, updates) ==
    IF ContextArgument(h, o, context_given)
    THEN [heap |-> h, err |-> "ObjectActionError", dispatched |-> <<>>,
          exc |-> [action |-> method], result |-> None]
    ELSE IF Orphaned(h, o)
    THEN [heap |-> h, err |-> "OrphanedObjectError", dispatched |-> <<>>,
          exc |-> [method |-> method, objtype |-> h[o].type],
          result |-> None]
    ELSE IF indirection
    THEN LET h1 == ApplyUpdates(h, o, updates, DOMAIN updates)
             h2 == obj_reset_changes(h1, o, FieldsNone, FALSE).heap
             reported == ReportedChanges(updates)
         IN ReturnForwarded(
                [heap |-> [h2 EXCEPT ![o].changed = reported], err |-> "none",
                 dispatched |-> <<[to |-> "object_action",
                                   context |-> h[o].ctx,
                                   objinst |-> o, objmethod |-> method]>>,
                 exc |-> None, result |-> "remote"], o, method)
    ELSE [heap |-> LocalImplementation(h, o, method), err |-> "none",
          dispatched |-> <<[to |-> "fn", objinst |-> o,
                            objmethod |-> method]>>,
          exc |-> None, result |-> "local"]

\* Remotable class methods: count(), which returns an integer, and get(),
\* which returns an entity of the class.
ClassMethods == {"count", "get"}

\* the contexts of the callers of class methods
CallerCtxs == {"ctx", "admin"}

\* fn(cls, context, *args, **kwargs): get() constructs its entity with
\* the context it was given if bound, without a context otherwise
LocalClassImplementation(h, t, context, method, bound) ==
    IF method = "count" THEN [heap |-> h, val |-> IntV(3)]
    ELSE LET o == Alloc(h)
         IN [heap |-> NovaObjectInit(h, o, t,
                         IF bound THEN context ELSE NoCtx,
                         (CounterField(t) :> IntV(1))),
             val |-> Ref(o)]

\* what the server answers to a class method, as it is on the wire
EmptyHeap == [i \in Ids |-> Free]

ClassReplies(t) ==
    {IntV(3)} \cup
    {serialize_entity(NovaObjectInit(EmptyHeap, 1, t, "server", kw), Ref(1)) :
        kw \in {NoData, (CounterField(t) :> IntV(1))}}

\* indirection_api.object_class_action(context, objname, objmethod,
\* objver, args, kwargs): the reply of the server, deserialized by the
\* serializer of the transport with the context of the call
object_class_action(h, context, objname, objmethod, objver, reply) ==
    deserialize_entity(Deserializing(h), context, reply)

\* AttachContext with a fault: the result is left as it is
AttachContextNever(h, result, context) == h

\* if isinstance(result, NovaObject): result._context = context
AttachContext(h, result, context) ==
    IF result.k = "ref" THEN [h EXCEPT ![result.id].ctx = context] ELSE h

\* the wrapper of a remotable class method of class t
remotable_classmethod(h, t, context, method, indirection, reply, bound) ==
    IF indirection
    THEN LET r == object_class_action(h, context, t, method,
                                      ClassVersion(t), reply)
         IN [heap |-> r.heap, err |-> r.err,
             dispatched |-> <<[to |-> "object_class_action",
                               context |-> context, objname |-> t,
                               objmethod |-> method,
                               objver |-> ClassVersion(t)]>>,
             result |-> r.val]
    ELSE LET l == LocalClassImplementation(h, t, context, method, bound)
         IN [heap |-> AttachContext(l.heap, l.val, context), err |-> "none",
             dispatched |-> <<[to |-> "fn", cls |-> t, context |-> context,
                               objmethod |-> method]>>,
             result |-> l.val]

InitRemote ==
    /\ heap = [i \in Ids |-> Free]
    /\ wire = NoPrim
    /\ last = Op("start", 0, None, "none", None)
    /\ nops = 0
    /\ registry = RegisteredClasses
    /\ latest = [t \in TypeNames |-> ClassVersion(t)]
    /\ scopes = <<>>

\* o = cls(context, **kwargs), with or without a context
ConstructAny ==
    /\ nops = 0
    /\ 3 * (Cardinality(Live(heap)) + 1) <= MaxObjs
    /\ \E t \in TypeNames, ctx \in Ctxs \cup {NoCtx} :
         \E kwargs \in ValidKwargs(heap, t) :
            LET o == Alloc(heap)
            IN /\ heap' = NovaObjectInit(heap, o, t, ctx, kwargs)
               /\ last' = Op("init", o, kwargs, "none", None)
    /\ UNCHANGED <<wire, nops>>
    /\ UNCHANGED <<regvars, scopes>>

\* o.method(*args)
RemotableCall ==
    /\ nops < MaxOps
    /\ \E o \in Live(heap), method \in Methods,
          context_given \in BOOLEAN, indirection \in BOOLEAN :
         \E updates \in IF indirection THEN UpdatesFor(heap[o].type)
                         ELSE {NoUpdates} :
            LET r == remotable(heap, o, method, context_given, indirection,
                               updates)
            IN /\ heap' = r.heap
               /\ last' = Op(method, o,
                             [remotable |-> TRUE,
                              context_given |-> context_given,
                              indirection |-> indirection,
                              updates |-> updates],
                             r.err, r)
    /\ nops' = nops + 1
    /\ UNCHANGED wire
    /\ UNCHANGED <<regvars, scopes>>

\* cls.method(context, *args)
RemotableClassCall ==
    /\ nops < MaxOps
    /\ FreeIds(heap) # {}
    /\ \E t \in TypeNames, context \in CallerCtxs, method \in ClassMethods,
          indirection \in BOOLEAN, bound \in BOOLEAN :
         \E reply \in IF indirection THEN ClassReplies(t) ELSE {Null} :
            LET r == remotable_classmethod(heap, t, context, method,
                                           indirection, reply, bound)
            IN /\ heap' = r.heap
               /\ last' = Op(method, 0,
                             [remotable |-> FALSE, cls |-> t,
                              context |-> context,
                              indirection |-> indirection,
                              reply |-> reply, bound |-> bound],
                             r.err, r)
    /\ nops' = nops + 1
    /\ UNCHANGED wire
    /\ UNCHANGED <<regvars, scopes>>

NextRemote ==
    \/ ConstructAny
    \/ RemotableCall
    \/ RemotableClassCall

SpecRemote == InitRemote /\ [][NextRemote]_vars

(***************************************************************************)
(* The serializer on its own: a process that has registered its classes    *)
(* serializes what it sends, then deserializes what it receives.           *)
(***************************************************************************)
MaxItems == 2

SeqsUpTo(E, n) == UNION {[1..k -> E] : k \in 0..n}

\* what a set may hold
Hashable(v) ==
    /\ v.k \notin {"pylist", "pyset", "pydict", "obj"}
    /\ v.k = "pytuple" =>
          \A i \in DOMAIN v.items :
             v.items[i].k \notin {"pylist", "pyset", "pydict", "obj"}

\* the containers of at most MaxItems of the values E
ContainersOf(E) ==
    {PySet(S) : S \in {T \in SUBSET E : /\ Cardinality(T) <= MaxItems
                                        /\ \A v \in T : Hashable(v)}}
        \cup {PyList(q) : q \in SeqsUpTo(E, MaxItems)}
        \cup {PyTuple(q) : q \in SeqsUpTo(E, MaxItems)}
        \cup {PyDict(d) : d \in [{"k"} -> E] \cup [{"k", "l"} -> E]}

\* the values given to serialize_entity: integers, entities, containers
\* of these and containers of containers
SentValues(h) ==
    LET atoms == {IntV(1), IntV(2)} \cup {Ref(o) : o \in Live(h)}
        inner == {IntV(1), PySet({IntV(1), IntV(2)}), PyTuple(<<IntV(2)>>)}
                    \cup {PySet({Ref(o)}) : o \in Live(h)}
    IN atoms \cup ContainersOf(atoms) \cup ContainersOf(inner)

\* the primitives received: those of the registry's requests, with
\* versions that have a patch component
ReceivedPrimitives ==
    FlatPrimitives({"nova", "other"},
                   {Ver(1, 3), VerP(1, 3, 1), Ver(1, 5), VerP(1, 5, 1),
                    Ver(2, 0)})
        \cup {[name |-> "Child", namespace |-> "nova", version |-> v,
               data |-> [sub |-> ObjP(p)]] :
                  v \in {Ver(1, 3), VerP(1, 3, 1)},
                  p \in {q \in FlatPrimitives({"nova"}, {Ver(1, 3), Ver(2, 0)}) :
                            q.data = NoData}}

\* the values given to deserialize_entity
ReceivedValues ==
    LET good == [name |-> "Child", namespace |-> "nova",
                 version |-> Ver(1, 3), data |-> [x |-> IntV(1)]]
        newer == [good EXCEPT !.version = VerP(1, 3, 1)]
        atoms == {IntV(1), ObjP(good), ObjP(newer)}
        inner == {IntV(1), PySet({IntV(1), IntV(2)}), PyList(<<ObjP(good)>>)}
    IN {ObjP(p) : p \in ReceivedPrimitives}
          \cup ContainersOf(atoms) \cup ContainersOf(inner)

\* the entities a received value describes
RECURSIVE WireSize(_)
RECURSIVE WireSizes(_)
WireSizes(items) ==
    IF items = <<>> THEN 0
    ELSE WireSize(Head(items)) + WireSizes(Tail(items))

WireSize(v) ==
    IF v.k = "obj" THEN PrimSize(v.prim)
    ELSE IF IsIterable(v) THEN WireSizes(ValuesOf(v))
    ELSE 0

\* the classes this process has registered
SerializerRegistries ==
    {register_class(RegisteredClasses, "Child", Ver(1, 3)),
     register_class(register_class(RegisteredClasses, "Child", Ver(1, 3)),
                    "Child", Ver(1, 4))}

SerializerHeaps ==
    {EmptyHeap,
     NovaObjectInit(EmptyHeap, 1, "Child", "ctx", [x |-> IntV(1)])}

InitSerializer ==
    /\ heap \in SerializerHeaps
    /\ wire = NoPrim
    /\ last = Op("start", 0, None, "none", None)
    /\ nops = 0
    /\ registry \in SerializerRegistries
    /\ latest = [n \in DOMAIN registry |-> registry[n][1]]
    /\ scopes = <<>>

\* serializer.serialize_entity(context, entity)
SerializeEntity ==
    /\ nops = 0
    /\ \E entity \in SentValues(heap) :
          last' = Op("serialize_entity", 0, [entity |-> entity], "none",
                     serialize_entity(heap, entity))
    /\ UNCHANGED <<heap, wire, nops>>
    /\ UNCHANGED <<regvars, scopes>>

\* serializer.deserialize_entity(context, entity)
DeserializeEntity ==
    /\ nops < MaxOps
    /\ \E entity \in ReceivedValues, context \in Ctxs :
         /\ WireSize(entity) <= Cardinality(FreeIds(heap))
         /\ LET r == deserialize_entity(Deserializing(heap), context, entity)
            IN /\ heap' = r.heap
               /\ last' = Op("deserialize_entity", 0,
                             [entity |-> entity, context |-> context],
                             r.err, r)
    /\ nops' = nops + 1
    /\ UNCHANGED wire
    /\ UNCHANGED <<regvars, scopes>>

NextSerializer ==
    \/ SerializeEntity
    \/ DeserializeEntity

SpecSerializer == InitSerializer /\ [][NextSerializer]_vars

(***************************************************************************)
(* obj_equal_prims, and a caller that compares the entities it holds.      *)
(***************************************************************************)
\* _strip(prim, keys): "changes" stands for nova_object.changes, the other
\* keys are those of ignore, which name fields
RECURSIVE Strip(_, _)

\* StripValue with a fault: the values of a dict are left as they are
StripValueShallow(v, keys) == v

\* _strip(v, keys) for a value v of a primitive
StripValue(v, keys) ==
    CASE v.k = "obj" -> ObjP(Strip(v.prim, keys))
      [] v.k = "list" -> ListP([i \in DOMAIN v.prims |-> Strip(v.prims[i], keys)])
      [] OTHER -> v

Strip(prim, keys) ==
    [key \in DOMAIN prim \ keys |->
        IF key = "data"
        THEN [f \in DOMAIN prim.data \ keys |-> StripValue(prim.data[f], keys)]
        ELSE prim[key]]

\* obj_equal_prims(obj_1, obj_2, ignore); ignore is FieldsNone or a list
obj_equal_prims(h, obj_1, obj_2, ignore) ==
    LET keys == IF ignore # FieldsNone
                THEN {"changes"} \cup Range(ignore.names)
                ELSE {"changes"}
        prim_1 == Strip(obj_to_primitive(h, obj_1, None).prim, keys)
        prim_2 == Strip(obj_to_primitive(h, obj_2, None).prim, keys)
    IN prim_1 = prim_2

\* the entities the caller holds: two Childs, and two Childs that hold
\* the first two
EqualHeaps ==
    {EntityOfVersion(EntityOfVersion(EntityOfVersion(EntityOfVersion(
            [i \in Ids |-> Free], "Child", k1, Ver(1, 2)),
                                 "Child", k2, v2),
                 "Child", [sub |-> Ref(1)], Ver(1, 2)),
          "Child", [sub |-> Ref(2)], Ver(1, 2)) :
        k1 \in {NoData, [x |-> IntV(1)]}, k2 \in {NoData, [x |-> IntV(1)]},
        v2 \in ChildVersions}

InitEqual ==
    /\ heap \in EqualHeaps
    /\ wire = NoPrim
    /\ last = Op("start", 0, None, "none", None)
    /\ nops = 0
    /\ registry = RegisteredClasses
    /\ latest = [t \in TypeNames |-> ClassVersion(t)]
    /\ scopes = <<>>

\* obj_equal_prims(a, b, ignore)
EqualPrims ==
    /\ \E a \in Live(heap), b \in Live(heap), ignore \in {FieldsNone, FieldsList(<<"x">>)} :
          last' = Op("obj_equal_prims", a, [other |-> b, ignore |-> ignore],
                     "none", obj_equal_prims(heap, a, b, ignore))
    /\ UNCHANGED <<heap, wire, nops>>
    /\ UNCHANGED <<regvars, scopes>>

NextEqual ==
    \/ SetAttr
    \/ ResetChanges
    \/ EqualPrims

SpecEqual == InitEqual /\ [][NextEqual]_vars

(***************************************************************************)
(* Reading fields: a caller that reads the fields of the entities it       *)
(* holds and asks whether they are set.                                    *)
(***************************************************************************)
\* obj_load_attr with a fault: the field is loaded as None
obj_load_attr_none(h, o, attrname) == [err |-> "none", ret |-> Null]

\* obj_load_attr(attrname) of the base class
obj_load_attr(h, o, attrname) == [err |-> "NotImplementedError", ret |-> None]

\* the property getter a registered class gets for each declared field;
\* a name that is no attribute of the entity raises AttributeError
getattr(h, o, name) ==
    IF name \notin fields(h[o].type)
    THEN [err |-> "AttributeError", ret |-> None]
    ELSE IF ~obj_attr_is_set(h, o, name) THEN obj_load_attr(h, o, name)
    ELSE [err |-> "none", ret |-> h[o].vals[name]]

\* self.obj_fields: the fields and the extra fields, of which the
\* entities here have none
obj_fields(t) == fields(t)

\* obj_attr_is_set(attrname), for any name
ObjAttrIsSet(h, o, attrname) ==
    IF attrname \notin obj_fields(h[o].type)
    THEN [err |-> "AttributeError", ret |-> None]
    ELSE [err |-> "none", ret |-> obj_attr_is_set(h, o, attrname)]

\* the names a caller may ask for
AttrNames(t) == fields(t) \cup {"bogus"}

\* o.name
GetAttr ==
    /\ \E o \in Live(heap) :
         \E name \in AttrNames(heap[o].type) :
            LET r == getattr(heap, o, name)
            IN last' = Op("getattr", o, [name |-> name], r.err, r.ret)
    /\ UNCHANGED <<heap, wire, nops>>
    /\ UNCHANGED <<regvars, scopes>>

\* o.obj_attr_is_set(name)
AttrIsSet ==
    /\ \E o \in Live(heap) :
         \E name \in AttrNames(heap[o].type) :
            LET r == ObjAttrIsSet(heap, o, name)
            IN last' = Op("obj_attr_is_set", o, [name |-> name], r.err, r.ret)
    /\ UNCHANGED <<heap, wire, nops>>
    /\ UNCHANGED <<regvars, scopes>>

NextRead ==
    \/ SetAttr
    \/ GetAttr
    \/ AttrIsSet

SpecRead == InitEqual /\ [][NextRead]_vars

(***************************************************************************)
(* Auxiliary notions the properties are stated with.                       *)
(***************************************************************************)
SetFields(h, o) == {f \in fields(h[o].type) : obj_attr_is_set(h, o, f)}

\* the entities reached from o through ObjectField values alone
RECURSIVE ObjReach(_, _)
ObjReach(h, o) ==
    {o} \cup UNION {ObjReach(h, h[o].vals[f].id) :
                       f \in {g \in fields(h[o].type) : h[o].vals[g].k = "ref"}}

\* entity o of heap h and entity n of heap g have the same type, the same
\* fields set, and equal values, nested entities compared likewise;
\* with withChanges, also the same changed sets and contexts
RECURSIVE SameEntity(_, _, _, _, _)
SameValue(h, v, g, w, withChanges) ==
    /\ v.k = w.k
    /\ CASE v.k = "ref" -> SameEntity(h, v.id, g, w.id, withChanges)
         [] v.k = "list" ->
                /\ Len(v.ids) = Len(w.ids)
                /\ \A i \in DOMAIN v.ids :
                      SameEntity(h, v.ids[i], g, w.ids[i], withChanges)
         [] OTHER -> v = w

SameEntity(h, o, g, n, withChanges) ==
    /\ h[o].type = g[n].type
    /\ \A f \in fields(h[o].type) :
          SameValue(h, h[o].vals[f], g, g[n].vals[f], withChanges)
    /\ withChanges =>
          /\ h[o].changed = g[n].changed
          /\ h[o].ctx = g[n].ctx

(***************************************************************************)
(* C1.  Round trip: hydrating the primitive of an entity, serialized       *)
(* without a target version, succeeds and gives an entity of the same      *)
(* type with exactly the same fields set, each to an equal value (changed  *)
(* sets are not compared).                                                 *)
(***************************************************************************)
C1_RoundTrip ==
    (last.op = "obj_from_primitive" /\ last.arg.target = None) =>
        /\ last.err = "none"
        /\ SameEntity(heap, last.arg.src, heap, last.obj, FALSE)

\* a Parent holding a Child that itself holds a Child with a value, and
\* with an unset field, has made the round trip
C1_Witness ==
    /\ last.op = "obj_from_primitive"
    /\ last.arg.target = None
    /\ last.err = "none"
    /\ heap[last.obj].type = "Parent"
    /\ heap[last.obj].vals["child"].k = "ref"
    /\ heap[heap[last.obj].vals["child"].id].vals["sub"].k = "ref"
    /\ heap[heap[heap[last.obj].vals["child"].id].vals["sub"].id].vals["x"]
          = IntV(1)
    /\ ~obj_attr_is_set(heap, last.obj, "items")

(***************************************************************************)
(* C2.  Every name in an entity's own changed set is a field currently     *)
(* set on that entity.                                                     *)
(***************************************************************************)
C2_ChangedSubsetOfSet ==
    \A o \in Live(heap) : heap[o].changed \subseteq SetFields(heap, o)

(***************************************************************************)
(* C3.  A field assigned by the constructor or by assignment is in         *)
(* obj_what_changed() right after, and is still there after the next       *)
(* operation unless that is an obj_reset_changes of the entity whose       *)
(* fields argument is None or names the field.                             *)
(***************************************************************************)
AssignedBy(l, o, f) ==
    \/ l.op = "setattr" /\ l.obj = o /\ l.arg.f = f
    \/ l.op = "init" /\ l.obj = o /\ f \in DOMAIN l.arg

ResetCovering(l, o, f) ==
    /\ l.op = "obj_reset_changes"
    /\ l.obj = o
    /\ ~l.arg.fields.given \/ f \in Range(l.arg.fields.names)

C3_StaysChanged ==
    [][\A o \in Live(heap') : \A f \in fields(heap'[o].type) :
          /\ AssignedBy(last', o, f) => f \in obj_what_changed(heap', o)
          /\ (o \in Live(heap) /\ AssignedBy(last, o, f)
                /\ ~ResetCovering(last', o, f))
              => f \in obj_what_changed(heap', o)]_vars

(***************************************************************************)
(* C4.  As claimed: after obj_reset_changes() without arguments,           *)
(* obj_what_changed() of the entity is empty.                              *)
(***************************************************************************)
ResetNoArgs(l) ==
    /\ l.op = "obj_reset_changes"
    /\ ~l.arg.fields.given
    /\ ~l.arg.recursive
    /\ l.err = "none"

C4_Original == ResetNoArgs(last) => obj_what_changed(heap, last.obj) = {}

\* some entity reached from c through ObjectField values has a changed
\* field of its own
NestedHasChanges(h, c) == \E d \in ObjReach(h, c) : h[d].changed # {}

(***************************************************************************)
(* C4, amended.  After obj_reset_changes() without arguments the entity's  *)
(* own changed set is empty, and obj_what_changed() returns exactly the    *)
(* fields holding an entity that has changed fields, itself or an entity   *)
(* nested in it through entity-valued fields.                              *)
(***************************************************************************)
C4_ResetLeavesNested ==
    ResetNoArgs(last) =>
        /\ heap[last.obj].changed = {}
        /\ obj_what_changed(heap, last.obj) =
              {f \in fields(heap[last.obj].type) :
                  /\ heap[last.obj].vals[f].k = "ref"
                  /\ NestedHasChanges(heap, heap[last.obj].vals[f].id)}

\* a reset Parent still reports its child field, whose Child has changes
C4_Witness ==
    /\ ResetNoArgs(last)
    /\ heap[last.obj].type = "Parent"
    /\ heap[last.obj].vals["child"].k = "ref"
    /\ heap[heap[last.obj].vals["child"].id].changed # {}
    /\ obj_what_changed(heap, last.obj) = {"child"}

(***************************************************************************)
(* C5.  After obj_reset_changes(recursive=True) without a fields filter    *)
(* on an entity, that entity and every entity nested in it, through        *)
(* entity-valued fields and the elements of list-valued fields at any      *)
(* depth, has an empty changed set.                                        *)
(***************************************************************************)
C5_RecursiveResetClearsAll ==
    \A o \in Live(heap) :
        LET r == obj_reset_changes(heap, o, FieldsNone, TRUE)
        IN r.err = "none" => \A d \in Reach(r.heap, o) : r.heap[d].changed = {}

(***************************************************************************)
(* C6.  obj_reset_changes(fields=F), F a list of names, removes exactly    *)
(* the names of F from the entity's own changed set and changes nothing    *)
(* else: no value, no other changed name, no context, no other entity.     *)
(***************************************************************************)
C6_FilteredReset ==
    [][(/\ last'.op = "obj_reset_changes"
        /\ last'.arg.fields.given
        /\ ~last'.arg.recursive
        /\ last'.err = "none")
       => heap' = [heap EXCEPT ![last'.obj].changed =
                                  @ \ Range(last'.arg.fields.names)]]_vars

(***************************************************************************)
(* C7.  obj_what_changed() is the own changed set, together with every     *)
(* set field holding an entity that reports changes or a list one of       *)
(* whose elements reports changes.                                         *)
(***************************************************************************)
RECURSIVE ClaimedWhatChanged(_, _)
ClaimedWhatChanged(h, o) ==
    h[o].changed \cup
    {f \in fields(h[o].type) :
        \E c \in RefsOf(h[o].vals[f]) : ClaimedWhatChanged(h, c) # {}}

C7_WhatChanged ==
    \A o \in Live(heap) : obj_what_changed(heap, o) = ClaimedWhatChanged(heap, o)

(***************************************************************************)
(* C8.  obj_clone() returns a new entity whose fields set, values and      *)
(* changed set equal the original's, nested entities included, and which   *)
(* shares no entity with the original or with anything that existed        *)
(* before: an assignment or a reset on the clone or in its nested          *)
(* entities leaves every entity of the original as it was, and the other   *)
(* way round.  The context is shared.  The call changes no existing        *)
(* entity.                                                                 *)
(***************************************************************************)
\* what a caller may do to entity d: assign a field, or reset its changes
Mutations(h, d) ==
    {setattr(h, d, f, IntV(1)) : f \in fields(h[d].type) \cap {"a", "x"}}
        \cup {setattr(h, d, f, Null) :
                 f \in fields(h[d].type) \cap {"child", "sub"}}
        \cup {obj_reset_changes(h, d, FieldsNone, TRUE).heap}

\* no mutation of an entity of o changes an entity of n
Isolated(h, o, n) ==
    \A d \in Reach(h, o) : \A g \in Mutations(h, d) :
        \A e \in Reach(h, n) : g[e] = h[e]

C8_CloneIsDeepCopy ==
    [][last'.op = "obj_clone" =>
         LET o == last'.obj
             n == last'.ret
         IN /\ n \notin Live(heap)
            /\ \A e \in Live(heap) : heap'[e] = heap[e]
            /\ SameEntity(heap', o, heap', n, TRUE)
            /\ heap'[n].ctx = heap[o].ctx
            /\ Reach(heap', n) \cap Live(heap) = {}
            /\ Isolated(heap', n, o)
            /\ Isolated(heap', o, n)]_vars

\* a Parent with changes, holding a Child and a list of a Child with
\* changes, has been cloned
C8_Witness ==
    /\ last.op = "obj_clone"
    /\ heap[last.obj].type = "Parent"
    /\ heap[last.obj].changed # {}
    /\ heap[last.obj].vals["child"].k = "ref"
    /\ heap[last.obj].vals["items"].k = "list"
    /\ \E c \in RefsOf(heap[last.obj].vals["items"]) : heap[c].changed # {}
    /\ heap[last.ret].vals["child"].id # heap[last.obj].vals["child"].id

(***************************************************************************)
(* C9.  A successful obj_set_defaults gives every named field (without     *)
(* arguments: every field declaring a default) that was unset its          *)
(* default, leaves every field that was set with its value, leaves every   *)
(* other field as it was, and a second call changes nothing.               *)
(***************************************************************************)
\* the fields a call with these attrs is about
DefaultedBy(t, attrs) ==
    IF attrs = <<>>
    THEN {f \in fields(t) : FieldDefault(t, f) # UnspecifiedDefault}
    ELSE Range(attrs)

C9_SetDefaultsKeepsSet ==
    [][(last'.op = "obj_set_defaults" /\ last'.err = "none") =>
         LET o == last'.obj
             t == heap[o].type
         IN /\ \A f \in fields(t) :
                  heap'[o].vals[f] =
                     IF f \in DefaultedBy(t, last'.arg)
                           /\ ~obj_attr_is_set(heap, o, f)
                     THEN FieldDefault(t, f)
                     ELSE heap[o].vals[f]
            /\ \A e \in Ids \ {o} : heap'[e] = heap[e]
            /\ obj_set_defaults(heap', o, last'.arg)
                  = [heap |-> heap', err |-> "none"]]_vars

\* a call without arguments on a Child whose defaulted field already has
\* another value
C9_Witness ==
    /\ last.op = "obj_set_defaults"
    /\ last.err = "none"
    /\ last.arg = <<>>
    /\ heap[last.obj].type = "Child"
    /\ heap[last.obj].vals["x"] = IntV(1)

(***************************************************************************)
(* C10.  obj_set_defaults fails with ObjectActionError whenever a field    *)
(* it names has no declared default, set or not; without arguments it      *)
(* never fails.                                                            *)
(***************************************************************************)
C10_NoDefaultRaises ==
    last.op = "obj_set_defaults" =>
        /\ (\E i \in DOMAIN last.arg :
               FieldDefault(heap[last.obj].type, last.arg[i])
                  = UnspecifiedDefault)
              => last.err = "ObjectActionError"
        /\ last.arg = <<>> => last.err = "none"

\* a field without a default, currently set, was named, and the call failed
C10_Witness ==
    /\ last.op = "obj_set_defaults"
    /\ last.arg = <<"child">>
    /\ obj_attr_is_set(heap, last.obj, "child")
    /\ last.err = "ObjectActionError"

(***************************************************************************)
(* C11.  As claimed: obj_to_primitive emits namespace 'nova', the type     *)
(* name, a version, and a data map whose keys are exactly the fields set   *)
(* on the entity; the changes key is present if and only if                *)
(* obj_what_changed() is not empty, and then lists exactly its names.      *)
(***************************************************************************)
WireShape(h, o, p) ==
    /\ p.namespace = "nova"
    /\ p.name = h[o].type
    /\ "version" \in DOMAIN p
    /\ ("changes" \in DOMAIN p) <=> (obj_what_changed(h, o) # {})
    /\ ("changes" \in DOMAIN p) => p.changes = obj_what_changed(h, o)

C11_Original ==
    last.op = "obj_to_primitive" =>
        /\ WireShape(heap, last.obj, wire)
        /\ DOMAIN wire.data = SetFields(heap, last.obj)

\* the composed fields whose relationship list starts after version target
AddedAfter(t, target) ==
    {f \in DOMAIN obj_relationships(t) :
        TupleLess(convert_version_to_tuple(target),
                  convert_version_to_tuple(obj_relationships(t)[f][1][1]))}

(***************************************************************************)
(* C11, amended.  obj_to_primitive emits namespace 'nova', the type name,  *)
(* the version (the target version if one is given, else the entity's)     *)
(* and a data map whose keys are exactly the fields set on the entity,     *)
(* less, when a target version is given, the composed fields added after   *)
(* that version; the changes key is present if and only if                 *)
(* obj_what_changed() is not empty, and then lists exactly its names.      *)
(***************************************************************************)
C11_WireShape ==
    last.op = "obj_to_primitive" =>
        LET o == last.obj
            target == last.arg
        IN /\ WireShape(heap, o, wire)
           /\ wire.version = IF target = None THEN heap[o].version ELSE target
           /\ DOMAIN wire.data =
                 IF target = None THEN SetFields(heap, o)
                 ELSE SetFields(heap, o) \ AddedAfter(heap[o].type, target)

\* a Parent with both composed fields set and changed was serialized for
\* a target version older than both
C11_Witness ==
    /\ last.op = "obj_to_primitive"
    /\ last.arg = Ver(1, 1)
    /\ heap[last.obj].type = "Parent"
    /\ SetFields(heap, last.obj) = {"child", "items"}
    /\ DOMAIN wire.data = {}
    /\ wire.changes = {"child", "items"}

(***************************************************************************)
(* C12.  obj_to_primitive makes the data compatible exactly when a target  *)
(* version is given that differs from the entity's version: serializing    *)
(* for the entity's own version gives the same primitive as serializing    *)
(* without a target version.                                               *)
(***************************************************************************)
C12_OwnVersionIsNoBackport ==
    (/\ last.op = "obj_to_primitive"
     /\ last.err = "none"
     /\ last.arg = heap[last.obj].version)
    => wire = obj_to_primitive(heap, last.obj, None).prim

(***************************************************************************)
(* C13.  Backporting an owner to a target version older than the first     *)
(* entry of the relationship list of a set composed field deletes that     *)
(* field from the primitive; no other field is removed, and the fields     *)
(* that are not composed keep their values.                                *)
(***************************************************************************)
Composed(t) == {f \in fields(t) : FieldKind(t, f) \in {"object", "list"}}

Backported(l) ==
    /\ l.op = "obj_to_primitive"
    /\ l.err = "none"
    /\ l.arg # None

C13_BackportRemoval ==
    Backported(last) =>
        LET o == last.obj
            t == heap[o].type
            plain == obj_to_primitive(heap, o, None).prim.data
            first(f) == obj_relationships(t)[f][1][1]
            older(f) == TupleLess(convert_version_to_tuple(last.arg),
                                  convert_version_to_tuple(first(f)))
        IN /\ \A f \in DOMAIN plain :
                 (f \in DOMAIN wire.data) <=> ~(f \in Composed(t) /\ older(f))
           /\ \A f \in DOMAIN plain \ Composed(t) : wire.data[f] = plain[f]

\* a Parent was backported to 1.2, older than its list field and not than
\* its child field; and the table of the example, backported to 1.0
C13_Witness ==
    /\ Backported(last)
    /\ heap[last.obj].type = "Parent"
    /\ last.arg \in {Ver(1, 0), Ver(1, 2)}
    /\ SetFields(heap, last.obj) = {"child", "items"}
    /\ DOMAIN wire.data = IF last.arg = Ver(1, 2) THEN {"child"} ELSE {}

(***************************************************************************)
(* C14.  As claimed: with the relationship list (1.2, 1.0), (1.4, 1.2) of  *)
(* field child, backporting the owner to 1.1 yields child version 1.0.     *)
(***************************************************************************)
ChildVersionAsked(l, target) ==
    /\ l.op = "obj_calculate_child_version"
    /\ heap[l.obj].type = "Parent"
    /\ l.arg.child = "child"
    /\ l.arg.target_version = target

C14_Original == ChildVersionAsked(last, Ver(1, 1)) => last.ret = Ver(1, 0)

(***************************************************************************)
(* C14, amended.  With that list, backporting the owner to 1.1 yields no   *)
(* child version: 1.1 is older than the first entry, and the field is      *)
(* removed from the primitive.                                             *)
(***************************************************************************)
C14_BackportTo11 ==
    /\ ChildVersionAsked(last, Ver(1, 1)) => last.ret = None
    /\ (Backported(last) /\ heap[last.obj].type = "Parent"
           /\ last.arg = Ver(1, 1))
       => "child" \notin DOMAIN wire.data

C14_Witness == ChildVersionAsked(last, Ver(1, 1)) /\ last.ret = None

(***************************************************************************)
(* C15.  As claimed: with the same list, backporting the owner to 1.3      *)
(* yields child version 1.2.                                               *)
(***************************************************************************)
C15_Original == ChildVersionAsked(last, Ver(1, 3)) => last.ret = Ver(1, 2)

(***************************************************************************)
(* C15, amended.  With that list, backporting the owner to 1.3 yields      *)
(* child version 1.0, the version the child had before the owner's 1.4,    *)
(* and the child's primitive records that version.                         *)
(***************************************************************************)
C15_BackportTo13 ==
    /\ ChildVersionAsked(last, Ver(1, 3)) => last.ret = Ver(1, 0)
    /\ (Backported(last) /\ heap[last.obj].type = "Parent"
           /\ last.arg = Ver(1, 3) /\ heap[last.obj].vals["child"].k = "ref")
       => wire.data["child"].prim.version = Ver(1, 0)

C15_Witness == ChildVersionAsked(last, Ver(1, 3)) /\ last.ret = Ver(1, 0)

(***************************************************************************)
(* C16.  As claimed: obj_class_from_name(name, v) on a registered name     *)
(* returns the registered version equal to v when there is one, a higher   *)
(* compatible one notwithstanding; otherwise the highest registered        *)
(* version of the same major with a minor not below v's; otherwise it      *)
(* fails.                                                                  *)
(***************************************************************************)
RegisteredVersions(name) ==
    IF name \in DOMAIN registry THEN Range(registry[name]) ELSE {}

\* the registered versions of the major of v and a minor not below v's
CompatibleWith(name, v) ==
    {w \in RegisteredVersions(name) : w.major = v.major /\ w.minor >= v.minor}

Highest(S) ==
    CHOOSE v \in S : \A w \in S : ~TupleLess(convert_version_to_tuple(v),
                                             convert_version_to_tuple(w))

ClassAsked(l) ==
    l.op = "obj_class_from_name" /\ l.arg.objname \in DOMAIN registry

\* the resolution of version v of a name with C as the compatible versions
ResolvesAmong(l, v, C) ==
    IF v \in RegisteredVersions(l.arg.objname)
    THEN l.err = "none" /\ l.ret.cls = v
    ELSE IF C # {}
    THEN l.err = "none" /\ l.ret.cls = Highest(C)
    ELSE l.err = "IncompatibleObjectVersion"

NotBelow(name, v) ==
    {w \in RegisteredVersions(name) :
        /\ w.major = v.major
        /\ ~TupleLess(convert_version_to_tuple(w),
                      convert_version_to_tuple(v))}

C17_HydrationFailures ==
    [][last'.op = "obj_from_primitive" =>
         LET P == last'.arg.primitive
         IN /\ (P.namespace # "nova" \/ P.name \notin DOMAIN registry)
                  => last'.err = "UnsupportedObjectError"
            /\ (/\ P.namespace = "nova"
                /\ P.name \in DOMAIN registry
                /\ P.version \notin RegisteredVersions(P.name)
                /\ CompatibleWith(P.name, P.version) = {})
                  => /\ last'.err = "IncompatibleObjectVersion"
                     /\ last'.ret.objver = P.version
                     /\ last'.ret.supported =
                           Highest(RegisteredVersions(P.name))
            /\ last'.err # "none" => heap' = heap]_vars

\* with 1.0 and 1.3 registered, a primitive of version 2.0 was refused
\* with 1.3 as supported
C17_Witness ==
    /\ last.op = "obj_from_primitive"
    /\ last.arg.primitive.version = Ver(2, 0)
    /\ RegisteredVersions("Child") = {Ver(1, 0), Ver(1, 3)}
    /\ last.err = "IncompatibleObjectVersion"
    /\ last.ret.supported = Ver(1, 3)
    /\ Live(heap) = {}

RemotableCalled(l) == l.op \in Methods /\ l.arg.remotable

C19_OrphanGuard ==
    [][(/\ RemotableCalled(last')
        /\ ~last'.arg.context_given
        /\ heap[last'.obj].ctx = NoCtx)
       => /\ last'.err = "OrphanedObjectError"
          /\ last'.ret.exc = [method |-> last'.op,
                              objtype |-> heap[last'.obj].type]
          /\ last'.ret.dispatched = <<>>
          /\ heap' = heap]_vars

\* an entity with changes and no context was called with a transport
\* configured
C19_Witness ==
    /\ RemotableCalled(last)
    /\ last.err = "OrphanedObjectError"
    /\ last.arg.indirection
    /\ heap[last.obj].changed # {}

Forwarded(l, h) ==
    /\ RemotableCalled(l)
    /\ ~l.arg.context_given
    /\ l.arg.indirection
    /\ h[l.obj].ctx # NoCtx

C21_ForwardedCall ==
    [][Forwarded(last', heap)
       => /\ last'.err = "none"
          /\ last'.ret.dispatched =
                <<[to |-> "object_action", context |-> heap[last'.obj].ctx,
                   objinst |-> last'.obj, objmethod |-> last'.op]>>
          /\ last'.ret.result = "remote"
          /\ heap'[last'.obj].changed =
                IF "obj_what_changed" \in DOMAIN last'.arg.updates
                THEN last'.arg.updates["obj_what_changed"]
                ELSE {}]_vars

\* the server sent a value for the integer field and no list of changes:
\* the entity, which holds other fields set at construction, has no changes
C21_Witness ==
    /\ Forwarded(last, heap)
    /\ DOMAIN last.arg.updates = {CounterField(heap[last.obj].type)}
    /\ \E f \in fields(heap[last.obj].type) \ DOMAIN last.arg.updates :
          heap[last.obj].vals[f] # Unset
    /\ heap[last.obj].changed = {}

(***************************************************************************)
(* C22.  After a forwarded remotable call every declared field named in    *)
(* the updates holds the server's value, every other field keeps its       *)
(* value, set or unset, and names in the updates that are not declared     *)
(* fields are passed over without an error.                                *)
(***************************************************************************)
C22_ForwardedFrame ==
    [][Forwarded(last', heap)
       => /\ last'.err = "none"
          /\ \A f \in fields(heap[last'.obj].type) :
                heap'[last'.obj].vals[f] =
                   IF f \in DOMAIN last'.arg.updates
                   THEN last'.arg.updates[f]
                   ELSE heap[last'.obj].vals[f]
          /\ \A i \in Ids \ {last'.obj} : heap'[i] = heap[i]]_vars

\* the updates named an undeclared field and a declared one; another
\* field of the entity is still unset and one still holds its value
C22_Witness ==
    /\ Forwarded(last, heap)
    /\ "bogus" \in DOMAIN last.arg.updates
    /\ \E f \in fields(heap[last.obj].type) \cap DOMAIN last.arg.updates :
          heap[last.obj].vals[f] = last.arg.updates[f]
    /\ \E f \in fields(heap[last.obj].type) \ DOMAIN last.arg.updates :
          heap[last.obj].vals[f] = Unset
    /\ \E f \in fields(heap[last.obj].type) \ DOMAIN last.arg.updates :
          heap[last.obj].vals[f] # Unset

(***************************************************************************)
(* C23.  A remotable class method called while a transport is configured   *)
(* is forwarded once as (context, name of the class, name of the method,   *)
(* version of the class, ...), the local implementation does not run and   *)
(* the result of the transport is returned; without a transport the local  *)
(* implementation runs.  Either way an entity that is returned has the     *)
(* context of the caller.                                                  *)
(***************************************************************************)
ClassMethodCalled(l) == l.op \in ClassMethods /\ ~l.arg.remotable

RECURSIVE Corresponds(_, _, _)
Corresponds(given, out, leaves) ==
    CASE given.k = "pyset" ->
            /\ out.k = "pylist"
            /\ Len(out.items) = Cardinality(given.elems)
            /\ \A e \in given.elems :
                  \E i \in DOMAIN out.items : Corresponds(e, out.items[i], leaves)
            /\ \A i \in DOMAIN out.items :
                  \E e \in given.elems : Corresponds(e, out.items[i], leaves)
      [] given.k \in {"pylist", "pytuple"} ->
            /\ out.k = given.k
            /\ Len(out.items) = Len(given.items)
            /\ \A i \in DOMAIN given.items :
                  Corresponds(given.items[i], out.items[i], leaves)
      [] given.k = "pydict" ->
            /\ out.k = "pydict"
            /\ DOMAIN out.map = DOMAIN given.map
            /\ \A key \in DOMAIN given.map :
                  Corresponds(given.map[key], out.map[key], leaves)
      [] OTHER -> <<given, out>> \in leaves

RECURSIVE HoldsSet(_)
HoldsSet(v) ==
    CASE v.k = "pyset" -> TRUE
      [] v.k \in {"pylist", "pytuple"} ->
            \E i \in DOMAIN v.items : HoldsSet(v.items[i])
      [] v.k = "pydict" -> \E key \in DOMAIN v.map : HoldsSet(v.map[key])
      [] OTHER -> FALSE

\* an entity is serialized to the primitive of its type, anything else
\* that is no container to itself
SerializedLeaves(h) ==
    {<<Ref(o), ObjP(obj_to_primitive(h, o, None).prim)>> : o \in Live(h)}
        \cup {<<IntV(n), IntV(n)>> : n \in 1..2}

\* a primitive is deserialized to an entity of its name, anything else
\* that is no container to itself
DeserializedLeaves(h) ==
    {pr \in {ObjP(p) : p \in ReceivedPrimitives} \X {Ref(o) : o \in Live(h)} :
        h[pr[2].id].type = pr[1].prim.name}
        \cup {<<IntV(n), IntV(n)>> : n \in 1..2}

C24_SetsBecomeLists ==
    /\ last.op = "serialize_entity"
          => /\ Corresponds(last.arg.entity, last.ret, SerializedLeaves(heap))
             /\ ~HoldsSet(last.ret)
    /\ (last.op = "deserialize_entity" /\ last.err = "none")
          => /\ Corresponds(last.arg.entity, last.ret.val,
                            DeserializedLeaves(heap))
             /\ ~HoldsSet(last.ret.val)

\* a dict was serialized that holds, under one key, a set of an entity
\* and, under the other, a tuple
C24_Witness ==
    /\ last.op = "serialize_entity"
    /\ last.arg.entity.k = "pydict"
    /\ \E key \in DOMAIN last.arg.entity.map :
          /\ last.arg.entity.map[key].k = "pyset"
          /\ \E e \in last.arg.entity.map[key].elems : e.k = "ref"
          /\ last.ret.map[key].k = "pylist"
          /\ Len(last.ret.map[key].items) = 1
    /\ \E key \in DOMAIN last.arg.entity.map :
          last.arg.entity.map[key].k = "pytuple"

(***************************************************************************)
(* C25.  When the hydration of a received primitive of a registered name   *)
(* fails with IncompatibleObjectVersion, a version that has a patch        *)
(* component is first cut to MAJOR.MINOR and the hydration tried again;    *)
(* the conductor is asked only if this fails too, or if the version has    *)
(* no patch component, and it is asked for the highest version registered  *)
(* for the name; what it answers is returned and nothing is raised.        *)
(***************************************************************************)
HydrationError(h, p, context) == obj_from_primitive(h, p, context).err

CutToMinor(p) ==
    [p EXCEPT !.version = [major |-> p.version.major,
                           minor |-> p.version.minor, patch |-> <<>>]]

\* the conductor was asked once, for the highest version registered for
\* the name of p, and the entity it answered with is returned
AskedFor(r, h, p) ==
    /\ Len(r.asked) = 1
    /\ r.asked[1].target = Highest(RegisteredVersions(p.name))
    /\ r.asked[1].objprim.name = p.name
    /\ r.err = "none"
    /\ h[r.val.id].version = Highest(RegisteredVersions(p.name))

C25_FallbackOrder ==
    [][(/\ last'.op = "deserialize_entity"
        /\ last'.arg.entity.k = "obj"
        /\ last'.arg.entity.prim.name \in DOMAIN registry
        /\ HydrationError(heap, last'.arg.entity.prim, last'.arg.context)
              = "IncompatibleObjectVersion")
       => LET p == last'.arg.entity.prim
              r == last'.ret
              again == HydrationError(heap, CutToMinor(p), last'.arg.context)
          IN IF p.version.patch = <<>>
             THEN r.tried = <<p.version>> /\ AskedFor(r, heap', p)
             ELSE /\ r.tried = <<p.version, CutToMinor(p).version>>
                  /\ CASE again = "none" ->
                             /\ r.asked = <<>>
                             /\ r.err = "none"
                             /\ heap'[r.val.id].version = CutToMinor(p).version
                       [] again = "IncompatibleObjectVersion" ->
                             AskedFor(r, heap', p)
                       [] OTHER -> r.asked = <<>> /\ r.err = again]_vars

\* a primitive of version 1.5.1 was received where 1.4 and 1.3 are
\* registered: 1.5 was tried next, then the conductor was asked for 1.4
C25_Witness ==
    /\ last.op = "deserialize_entity"
    /\ last.arg.entity.k = "obj"
    /\ last.ret.tried = <<VerP(1, 5, 1), Ver(1, 5)>>
    /\ Len(last.ret.asked) = 1
    /\ last.ret.asked[1].target = Ver(1, 4)
    /\ last.err = "none"
    /\ heap[last.ret.val.id].version = Ver(1, 4)

(***************************************************************************)
(* C26.  obj_equal_prims(a, b) is true of two entities of the same type    *)
(* and version that have the same fields set to the same values, nested    *)
(* entities compared likewise, whatever their changed sets and those of    *)
(* their nested entities; and it changes no entity.                        *)
(***************************************************************************)
RECURSIVE Alike(_, _, _)
AlikeValue(h, v, w) ==
    /\ v.k = w.k
    /\ CASE v.k = "ref" -> Alike(h, v.id, w.id)
         [] v.k = "list" ->
                /\ Len(v.ids) = Len(w.ids)
                /\ \A i \in DOMAIN v.ids : Alike(h, v.ids[i], w.ids[i])
         [] OTHER -> v = w

Alike(h, a, b) ==
    /\ h[a].type = h[b].type
    /\ h[a].version = h[b].version
    /\ \A f \in fields(h[a].type) : AlikeValue(h, h[a].vals[f], h[b].vals[f])

C26_EqualIgnoringChanges ==
    [][last'.op = "obj_equal_prims"
       => /\ heap' = heap
          /\ Alike(heap, last'.obj, last'.arg.other) => last'.ret = TRUE]_vars

\* two entities were found equal whose changed sets differ and whose
\* nested entities have changed sets that differ
C26_Witness ==
    /\ last.op = "obj_equal_prims"
    /\ last.ret = TRUE
    /\ last.arg.ignore = FieldsNone
    /\ heap[last.obj].changed # heap[last.arg.other].changed
    /\ heap[last.obj].vals["sub"].k = "ref"
    /\ heap[last.arg.other].vals["sub"].k = "ref"
    /\ heap[heap[last.obj].vals["sub"].id].changed
          # heap[heap[last.arg.other].vals["sub"].id].changed

(***************************************************************************)
(* C27.  Reading a declared field that was never assigned raises an        *)
(* error (the NotImplementedError of obj_load_attr): no default and no     *)
(* None is returned and the field stays unset; reading a field that was    *)
(* assigned None returns None.  obj_attr_is_set tells the two apart, and   *)
(* raises AttributeError for a name that is no field.                      *)
(***************************************************************************)
C27_UnsetRead ==
    [][/\ (last'.op = "getattr"
              /\ last'.arg.name \in fields(heap[last'.obj].type))
          => /\ heap' = heap
             /\ IF heap[last'.obj].vals[last'.arg.name] = Unset
                THEN /\ last'.err = "NotImplementedError"
                     /\ last'.ret = None
                ELSE /\ last'.err = "none"
                     /\ last'.ret = heap[last'.obj].vals[last'.arg.name]
       /\ last'.op = "obj_attr_is_set"
          => /\ heap' = heap
             /\ IF last'.arg.name \in fields(heap[last'.obj].type)
                THEN /\ last'.err = "none"
                     /\ last'.ret =
                           (heap[last'.obj].vals[last'.arg.name] # Unset)
                ELSE last'.err = "AttributeError"]_vars

\* a field never assigned was read on an entity that has another field
\* assigned None
C27_Witness ==
    /\ last.op = "getattr"
    /\ last.err = "NotImplementedError"
    /\ heap[last.obj].vals[last.arg.name] = Unset
    /\ \E f \in fields(heap[last.obj].type) : heap[last.obj].vals[f] = Null

(***************************************************************************)
(* C28.  For a relationship list in ascending order of owner versions and  *)
(* a target version not older than its first entry,                        *)
(* obj_calculate_child_version returns the child version of the entry      *)
(* with the greatest owner version not above the target: that of the       *)
(* entry matched, or of the entry before the first newer one.              *)
(***************************************************************************)
VersionLeq(v, w) ==
    ~TupleLess(convert_version_to_tuple(w), convert_version_to_tuple(v))

\* the index of the entry of rel with the greatest owner version not
\* above target
Governing(rel, target) ==
    CHOOSE i \in DOMAIN rel :
       /\ VersionLeq(rel[i][1], target)
       /\ \A j \in DOMAIN rel :
             VersionLeq(rel[j][1], target) => VersionLeq(rel[j][1], rel[i][1])

C28_InRangeChildVersion ==
    last.op = "obj_calculate_child_version" =>
        LET rel == obj_relationships(heap[last.obj].type)[last.arg.child]
            target == last.arg.target_version
        IN VersionLeq(rel[1][1], target)
              => last.ret = rel[Governing(rel, target)][2]

\* asked for 1.3, between the entries of 1.2 and 1.4 of the child field
C28_Witness ==
    /\ ChildVersionAsked(last, Ver(1, 3))
    /\ last.arg.child = "child"
    /\ last.ret = Ver(1, 0)

(***************************************************************************)
(* C29.  Backporting an owner to a target version not older than the last  *)
(* entry of the relationship list of a field does not backport the child:  *)
(* the child version of the last entry is an upper bound only.  The        *)
(* version recorded for the child in the primitive changes only if the     *)
(* version the child was serialized with is above it; a child serialized   *)
(* with that version or a lower one is left as it was serialized.          *)
(***************************************************************************)
\* the primitive p of a child is within the bound, or cut down to it
WithinBound(p, serialized, bound) ==
    IF TupleLess(convert_version_to_tuple(bound),
                 convert_version_to_tuple(serialized.version))
    THEN p.version = bound
    ELSE p = serialized

C29_UpperBoundOnly ==
    Backported(last) =>
        LET o == last.obj
            t == heap[o].type
            plain == obj_to_primitive(heap, o, None).prim.data
        IN \A f \in Composed(t) \cap DOMAIN plain :
              LET rel == obj_relationships(t)[f]
                  bound == rel[Len(rel)][2]
              IN VersionLeq(rel[Len(rel)][1], last.arg)
                    => CASE plain[f].k = "obj" ->
                               WithinBound(wire.data[f].prim, plain[f].prim,
                                           bound)
                         [] plain[f].k = "list" ->
                               \A i \in DOMAIN plain[f].prims :
                                  WithinBound(wire.data[f].prims[i],
                                              plain[f].prims[i], bound)
                         [] OTHER -> wire.data[f] = plain[f]

(***************************************************************************)
(* C30.  After a backport of an owner, for each composed field that is     *)
(* set and for which a child version cv is computed: the primitive of a    *)
(* single child records cv and its data is what the child's own            *)
(* obj_make_compatible makes of it for cv; so for every element of a list  *)
(* field, and so at every depth; a child that is None stays None.          *)
(***************************************************************************)
\* p is the serialized primitive of entity c, made compatible with cv
MadeCompatible(p, c, serialized, cv) ==
    /\ p.version = cv
    /\ p.data = obj_make_compatible(heap, c, serialized.data, cv).data

C30_RecursiveBackport ==
    Backported(last) =>
        LET o == last.obj
            t == heap[o].type
            plain == obj_to_primitive(heap, o, None).prim.data
        IN \A f \in Composed(t) \cap DOMAIN plain :
              LET cv == obj_calculate_child_version(t, last.arg, f)
                  v == heap[o].vals[f]
              IN cv # None
                    => CASE v.k = "ref" ->
                               MadeCompatible(wire.data[f].prim, v.id,
                                              plain[f].prim, cv)
                         [] v.k = "list" ->
                               /\ Len(wire.data[f].prims) = Len(v.ids)
                               /\ \A i \in DOMAIN v.ids :
                                     MadeCompatible(wire.data[f].prims[i],
                                                    v.ids[i],
                                                    plain[f].prims[i], cv)
                         [] OTHER -> wire.data[f] = Null

(***************************************************************************)
(* Backport rules: an entity whose class lacks a rule for a sub-object     *)
(* field, a Parent after obj_reset_changes() that holds a changed Child,   *)
(* and target versions with a PATCH component.                             *)
(***************************************************************************)
PatchTargets == {VerP(1, y, z) : y \in 0..5, z \in {0, 1}}

\* a Child, a Parent (after obj_reset_changes() if saved) and a Loose
RuleHeap(k1, v1, k2, k3, saved) ==
    LET h == EntityOfVersion(EntityOfVersion(
                 [i \in Ids |-> Free], "Child", k1, v1),
                             "Parent", k2, ClassVersion("Parent"))
    IN EntityOfVersion(
           IF saved THEN obj_reset_changes(h, 2, FieldsNone, FALSE).heap
           ELSE h,
           "Loose", k3, ClassVersion("Loose"))

RuleHeaps ==
    LET k1s == {k \in KwargsOf([i \in Ids |-> Free], "Child") :
                   "sub" \notin DOMAIN k}
        k2s == {k \in KwargsOf([i \in Ids |-> IF i = 1
                                             THEN NewObj("Child", "ctx")
                                             ELSE Free], "Parent") :
                   "child" \in DOMAIN k => k["child"] = Ref(1)}
        k3s == {[f \in D |-> IF f = "n" THEN IntV(1) ELSE v] :
                   D \in SUBSET {"n", "peer"}, v \in {Null, Ref(1)}}
    IN {RuleHeap(k1, v1, k2, k3, FALSE) :
            k1 \in k1s, v1 \in ChildVersions,
            k2 \in {k \in k2s : "items" \notin DOMAIN k}, k3 \in k3s}
       \cup {RuleHeap(k1, v1, k2, NoData, saved) :
                k1 \in k1s, v1 \in ChildVersions, k2 \in k2s,
                saved \in BOOLEAN}

InitRules ==
    /\ heap \in RuleHeaps
    /\ wire = NoPrim
    /\ last = Op("start", 0, None, "none", None)
    /\ nops = 0
    /\ registry = RegisteredClasses
    /\ latest = [t \in TypeNames |-> ClassVersion(t)]
    /\ scopes = <<>>

\* wire = o.obj_to_primitive(target_version), target_version X.Y.Z
BackportToPatch ==
    /\ \E o \in Live(heap), target \in PatchTargets :
         LET r == obj_to_primitive(heap, o, target)
         IN /\ wire' = IF r.err = "none" THEN r.prim ELSE NoPrim
            /\ heap' = AfterToPrimitive(heap, o, target)
            /\ last' = Op("obj_to_primitive", o, target, r.err, None)
    /\ UNCHANGED nops
    /\ UNCHANGED <<regvars, scopes>>

\* o.obj_calculate_child_version(target_version, child), target_version
\* X.Y.Z
CalculateChildVersionPatch ==
    /\ \E o \in Live(heap), target \in PatchTargets :
         \E child \in DOMAIN obj_relationships(heap[o].type) :
            last' = Op("obj_calculate_child_version", o,
                       [target_version |-> target, child |-> child], "none",
                       obj_calculate_child_version(heap[o].type, target,
                                                   child))
    /\ wire' = NoPrim
    /\ UNCHANGED <<heap, nops>>
    /\ UNCHANGED <<regvars, scopes>>

NextRules ==
    \/ BackportTo
    \/ BackportToPatch
    \/ CalculateChildVersionPatch

SpecRules == InitRules /\ [][NextRules]_vars

(***************************************************************************)
(* C31: obj_make_compatible raises ObjectActionError exactly when some     *)
(* sub-object field (ObjectField or ListOfObjectsField) of the entity is   *)
(* set and has no rule in obj_relationships; an unset sub-object field     *)
(* without a rule raises nothing, and the fields that are not sub-object   *)
(* fields are in the result as they were serialized.                       *)
(***************************************************************************)
Unruled(h, o) ==
    {f \in Composed(h[o].type) :
        obj_attr_is_set(h, o, f) /\ f \notin DOMAIN obj_relationships(h[o].type)}

C31_NoRuleForSetField ==
    (last.op = "obj_to_primitive" /\ last.arg # None) =>
        LET o == last.obj
            t == heap[o].type
        IN IF Unruled(heap, o) # {}
           THEN last.err = "ObjectActionError" /\ wire = NoPrim
           ELSE /\ last.err = "none"
                /\ \A f \in fields(t) \ Composed(t) :
                      /\ f \in DOMAIN wire.data <=> obj_attr_is_set(heap, o, f)
                      /\ f \in DOMAIN wire.data => wire.data[f] = heap[o].vals[f]

C31_Witness ==
    /\ last.op = "obj_to_primitive"
    /\ last.arg # None
    /\ heap[last.obj].type = "Loose"
    /\ heap[last.obj].vals["peer"] = Ref(1)
    /\ obj_attr_is_set(heap, last.obj, "n")
    /\ last.err = "ObjectActionError"


(***************************************************************************)
(* C32: in backporting the PATCH component of the target is advisory: for  *)
(* every relationship list and every target X.Y.Z,                         *)
(* obj_calculate_child_version returns what it returns for X.Y (None, the  *)
(* deletion of the field, included), and obj_to_primitive(X.Y.Z) fails as  *)
(* obj_to_primitive(X.Y) does or yields the same data.                     *)
(***************************************************************************)
WithoutPatch(v) == Ver(v.major, v.minor)

C32_PatchAdvisory ==
    /\ (last.op = "obj_calculate_child_version"
            /\ last.arg.target_version.patch # <<>>) =>
          last.ret = obj_calculate_child_version(heap[last.obj].type,
                         WithoutPatch(last.arg.target_version), last.arg.child)
    /\ (last.op = "obj_to_primitive" /\ last.arg \in PatchTargets) =>
          LET r == obj_to_primitive(heap, last.obj, WithoutPatch(last.arg))
          IN /\ last.err = r.err
             /\ r.err = "none" => wire.data = r.prim.data

C32_Witness ==
    /\ last.op = "obj_calculate_child_version"
    /\ heap[last.obj].type = "Parent"
    /\ last.arg = [target_version |-> VerP(1, 2, 1), child |-> "child"]
    /\ last.ret = Ver(1, 0)


(***************************************************************************)
(* C33: after obj_from_primitive(P, context) the fields set are the keys   *)
(* of P's data that the class declares, each with the value hydrated from  *)
(* P, _changed_fields is P's changes restricted to the declared fields     *)
(* (empty without a changes key), so that a hydrated field P does not list *)
(* is not marked changed, and _context is the context supplied.            *)
(***************************************************************************)
C33_HydrationResult ==
    (last.op = "obj_from_primitive" /\ last.err = "none") =>
        LET o == last.obj
            P == last.arg.primitive
            t == heap[o].type
            changes == IF "changes" \in DOMAIN P THEN P.changes ELSE {}
        IN /\ t = P.name
           /\ SetFields(heap, o) = DOMAIN P.data \cap fields(t)
           /\ \A f \in SetFields(heap, o) :
                 IF P.data[f].k = "obj"
                 THEN /\ heap[o].vals[f].k = "ref"
                      /\ heap[heap[o].vals[f].id].ctx = last.arg.context
                 ELSE heap[o].vals[f] = P.data[f]
           /\ heap[o].changed = changes \cap fields(t)
           /\ heap[o].ctx = last.arg.context

C33_Witness ==
    /\ last.op = "obj_from_primitive"
    /\ last.err = "none"
    /\ DOMAIN last.arg.primitive.data = {"x", "bogus"}
    /\ "changes" \in DOMAIN last.arg.primitive
    /\ last.arg.primitive.changes = {"bogus"}
    /\ last.arg.context = NoCtx
    /\ SetFields(heap, last.obj) = {"x"}
    /\ heap[last.obj].changed = {}


(***************************************************************************)
(* C34: deserializing one primitive tries to hydrate it at most twice, the *)
(* second time only after IncompatibleObjectVersion on a version with a    *)
(* PATCH and with that PATCH cut off, asks the conductor for a backport at *)
(* most once, and then returns or raises; any other error of the first or  *)
(* of the second try is raised as it is, with no further try and no        *)
(* backport.  A container costs at most that for each primitive in it.     *)
(***************************************************************************)
RECURSIVE Processed(_)
RECURSIVE ProcessedIn(_)
ProcessedIn(items) ==
    IF items = <<>> THEN 0
    ELSE Processed(Head(items)) + ProcessedIn(Tail(items))

\* the primitives deserialize_entity hands to _process_object
Processed(v) ==
    IF v.k = "obj" THEN 1
    ELSE IF IsIterable(v) THEN ProcessedIn(ValuesOf(v))
    ELSE 0

C34_SingleRetry ==
    [][last'.op = "deserialize_entity"
       => LET r == last'.ret
              e == last'.arg.entity
          IN /\ Len(r.tried) <= 2 * Processed(e)
             /\ Len(r.asked) <= Processed(e)
             /\ r.err = last'.err
             /\ e.k = "obj" =>
                  LET p == e.prim
                      first == HydrationError(heap, p, last'.arg.context)
                      again == HydrationError(heap, CutToMinor(p),
                                              last'.arg.context)
                  IN /\ Len(r.tried) \in {1, 2}
                     /\ r.tried[1] = p.version
                     /\ Len(r.tried) = 2 <=>
                           (first = "IncompatibleObjectVersion"
                               /\ p.version.patch # <<>>)
                     /\ Len(r.tried) = 2 => r.tried[2] = CutToMinor(p).version
                     /\ first \notin {"none", "IncompatibleObjectVersion"} =>
                           r.err = first /\ r.asked = <<>>
                     /\ (Len(r.tried) = 2
                           /\ again \notin {"none", "IncompatibleObjectVersion"})
                           => r.err = again /\ r.asked = <<>>
                     /\ r.err = "none" => r.val.k = "ref"]_vars

C34_Witness ==
    /\ last.op = "deserialize_entity"
    /\ last.arg.entity.k = "obj"
    /\ Len(last.ret.tried) = 2
    /\ Len(last.ret.asked) = 1
    /\ last.err = "none"


(***************************************************************************)
(* The context managers obj_alternate_context and obj_as_admin.  A frame   *)
(* of scopes is a with-block that has been entered and not yet left: the   *)
(* generator suspended at its yield, with its argument and its local       *)
(* original_context.                                                       *)
(***************************************************************************)
MaxDepth == 3

AlternateCtxs == {"alt", NoCtx}

\* context.elevated(): a copy of the context with the admin flag set
Elevated(c) ==
    CASE c = "ctx" -> "ctx_admin"
      [] c = "alt" -> "alt_admin"
      [] OTHER -> c

\* the finally clause, with a fault: an except-free else clause, skipped
\* when the body raised
RestoreUnlessRaised(h, o, original_context, raised) ==
    IF raised THEN h ELSE [h EXCEPT ![o].ctx = original_context]

\* the finally clause of both context managers
Restore(h, o, original_context, raised) ==
    [h EXCEPT ![o].ctx = original_context]

InitScopes ==
    /\ heap = NovaObjectInit(NovaObjectInit(EmptyHeap, 1, "Child", "ctx",
                                            NoData),
                             2, "Child", NoCtx, NoData)
    /\ wire = NoPrim
    /\ last = Op("start", 0, None, "none", None)
    /\ nops = 0
    /\ registry = RegisteredClasses
    /\ latest = [t \in TypeNames |-> ClassVersion(t)]
    /\ scopes = <<>>

\* with o.obj_alternate_context(context): up to the yield
EnterAlternateContext ==
    /\ Len(scopes) < MaxDepth
    /\ \E o \in Live(heap), context \in AlternateCtxs :
         /\ scopes' = Append(scopes, [obj |-> o,
                                      manager |-> "obj_alternate_context",
                                      context |-> context,
                                      original_context |-> heap[o].ctx])
         /\ heap' = [heap EXCEPT ![o].ctx = context]
         /\ last' = Op("obj_alternate_context", o, context, "none", None)
    /\ UNCHANGED <<wire, nops>>
    /\ UNCHANGED regvars

\* with o.obj_as_admin(): up to the yield, or the raise before it
EnterAsAdmin ==
    /\ Len(scopes) < MaxDepth
    /\ \E o \in Live(heap) :
         IF heap[o].ctx = NoCtx
         THEN /\ last' = Op("obj_as_admin", o, None, "OrphanedObjectError",
                            None)
              /\ UNCHANGED <<heap, scopes>>
         ELSE /\ scopes' = Append(scopes, [obj |-> o,
                                           manager |-> "obj_as_admin",
                                           context |-> NoCtx,
                                           original_context |-> heap[o].ctx])
              /\ heap' = [heap EXCEPT ![o].ctx = Elevated(heap[o].ctx)]
              /\ last' = Op("obj_as_admin", o, None, "none", None)
    /\ UNCHANGED <<wire, nops>>
    /\ UNCHANGED regvars

\* the innermost with-block is left: its body returned, or raised an
\* exception that the generator sees at the yield and lets through
LeaveScope ==
    /\ scopes # <<>>
    /\ \E raised \in BOOLEAN :
         LET top == scopes[Len(scopes)]
         IN /\ heap' = Restore(heap, top.obj, top.original_context, raised)
            /\ scopes' = SubSeq(scopes, 1, Len(scopes) - 1)
            /\ last' = Op("exit", top.obj, [raised |-> raised],
                          IF raised THEN "BodyError" ELSE "none", None)
    /\ UNCHANGED <<wire, nops>>
    /\ UNCHANGED regvars

NextScopes ==
    \/ EnterAlternateContext
    \/ EnterAsAdmin
    \/ LeaveScope

SpecScopes == InitScopes /\ [][NextScopes]_vars

(***************************************************************************)
(* C35: inside obj_alternate_context(ctx) the entity's context is ctx,     *)
(* inside obj_as_admin() it is the elevated form of the context it had;    *)
(* leaving the block, by return or by an exception of the body, puts back  *)
(* the context the entity had when the block was entered, so that with     *)
(* every block left every entity has the context it started with, nesting  *)
(* included; obj_as_admin on an entity without context raises              *)
(* OrphanedObjectError, opens no block and leaves the context None.        *)
(***************************************************************************)
\* the context the entity was constructed with
BaseCtx(o) == IF o = 1 THEN "ctx" ELSE NoCtx

\* the context entity o is to have with the first n with-blocks open
RECURSIVE ScopedCtx(_, _)
ScopedCtx(o, n) ==
    IF n = 0 THEN BaseCtx(o)
    ELSE IF scopes[n].obj # o THEN ScopedCtx(o, n - 1)
    ELSE IF scopes[n].manager = "obj_alternate_context"
    THEN scopes[n].context
    ELSE Elevated(ScopedCtx(o, n - 1))

C35_ScopedContext ==
    /\ \A o \in Live(heap) : heap[o].ctx = ScopedCtx(o, Len(scopes))
    /\ last.op = "obj_as_admin" =>
          (last.err = "OrphanedObjectError" <=> heap[last.obj].ctx = NoCtx)
    /\ (last.op = "obj_as_admin" /\ last.err = "none") =>
          /\ scopes # <<>>
          /\ scopes[Len(scopes)].manager = "obj_as_admin"
          /\ scopes[Len(scopes)].obj = last.obj

\* an exception leaves the inner of two blocks on the same entity
C35_Witness ==
    /\ last.op = "exit"
    /\ last.arg.raised
    /\ Len(scopes) = 1
    /\ scopes[1].obj = last.obj
    /\ scopes[1].manager = "obj_as_admin"
    /\ heap[last.obj].ctx = "ctx_admin"


(***************************************************************************)
(* C36: obj_to_primitive, with or without target_version, leaves the       *)
(* entity and every entity nested in it as they were: the values of the    *)
(* fields, which fields are set, _changed_fields, VERSION and _context;    *)
(* also when the backport deletes a field from the primitive or restamps   *)
(* a nested primitive.                                                     *)
(***************************************************************************)
C36_ToPrimitiveReadOnly ==
    [][last'.op = "obj_to_primitive"
       => \A o \in Live(heap) :
             /\ heap'[o].vals = heap[o].vals
             /\ heap'[o].changed = heap[o].changed
             /\ heap'[o].version = heap[o].version
             /\ heap'[o].ctx = heap[o].ctx
             /\ heap'[o].type = heap[o].type]_vars

\* a Parent with a changed Child was backported to a version that has no
\* child field
C36_Witness ==
    /\ last.op = "obj_to_primitive"
    /\ last.arg = Ver(1, 1)
    /\ last.err = "none"
    /\ heap[last.obj].type = "Parent"
    /\ obj_attr_is_set(heap, last.obj, "child")
    /\ heap[last.obj].vals["child"] # Null
    /\ heap[heap[last.obj].vals["child"].id].changed # {}
    /\ "child" \notin heap[last.obj].changed
    /\ "child" \notin DOMAIN wire.data
    /\ "child" \in wire.changes


(***************************************************************************)
(* C37: an entity hydrated from a primitive of version v has VERSION v,    *)
(* also when obj_class_from_name resolved v to a class registered with a   *)
(* higher compatible version w, and obj_to_primitive() without             *)
(* target_version then emits v: hydrating a primitive and serializing the  *)
(* entity gives a primitive of the same name and version.                  *)
(***************************************************************************)
ResolvedVersion(P) == obj_class_from_name(registry, P.name, P.version).cls

C37_HydratedVersionSticky ==
    /\ (last.op = "obj_from_primitive" /\ last.err = "none") =>
          heap[last.obj].version = last.arg.primitive.version
    /\ (last.op = "obj_to_primitive" /\ last.ret # None) =>
          /\ last.err = "none"
          /\ heap[last.obj].version = last.ret.primitive.version
          /\ wire.version = last.ret.primitive.version
          /\ wire.name = last.ret.primitive.name

C37_Witness ==
    /\ last.op = "obj_to_primitive"
    /\ last.ret # None
    /\ last.ret.primitive.version = Ver(1, 2)
    /\ ResolvedVersion(last.ret.primitive) = Ver(1, 4)
    /\ wire.version = Ver(1, 2)


(***************************************************************************)
(* C38: a call of a remotable method or class method ends in exactly one   *)
(* of three ways: a guard raises and nothing is dispatched and nothing     *)
(* changes; or the call is forwarded, once, and the local implementation   *)
(* is not run; or the local implementation is run, once, and nothing is    *)
(* forwarded.  On the local path the wrapper of an instance method does    *)
(* nothing else: the entities are as the implementation left them, no      *)
(* update is applied and _changed_fields is not reset.                     *)
(***************************************************************************)
DispatchedTo(l) == {l.ret.dispatched[i].to : i \in DOMAIN l.ret.dispatched}

C38_ExactlyOneDispatch ==
    [][(RemotableCalled(last') \/ ClassMethodCalled(last'))
       => LET r == last'.ret
              transport == IF last'.arg.remotable THEN "object_action"
                           ELSE "object_class_action"
          IN /\ Len(r.dispatched) <= 1
             /\ DispatchedTo(last') \subseteq {transport, "fn"}
             /\ r.dispatched = <<>> <=>
                   (last'.err \in {"ObjectActionError", "OrphanedObjectError"}
                       /\ last'.arg.remotable)
             /\ r.dispatched = <<>> => heap' = heap
             /\ DispatchedTo(last') = {transport} <=>
                   (r.dispatched # <<>> /\ last'.arg.indirection)
             /\ DispatchedTo(last') = {"fn"} <=>
                   (r.dispatched # <<>> /\ ~last'.arg.indirection)
             /\ (DispatchedTo(last') = {"fn"} /\ last'.arg.remotable) =>
                   /\ heap' = LocalImplementation(heap, last'.obj, last'.op)
                   /\ last'.op = "refresh" =>
                         heap[last'.obj].changed
                             \subseteq heap'[last'.obj].changed
             /\ (DispatchedTo(last') = {"object_action"}
                    /\ last'.arg.updates = NoUpdates) =>
                   /\ heap'[last'.obj].vals = heap[last'.obj].vals
                   /\ heap'[last'.obj].changed = {}]_vars

\* refresh() ran locally on an entity with changes
C38_Witness ==
    /\ last.op = "refresh"
    /\ last.arg.remotable
    /\ ~last.arg.indirection
    /\ last.err = "none"
    /\ Len(last.ret.dispatched) = 1
    /\ last.ret.dispatched[1].to = "fn"
    /\ Cardinality(heap[last.obj].changed) = 2


(***************************************************************************)
(* C39: when deserialize_entity is given a primitive whose name is not     *)
(* registered or whose namespace is not 'nova', UnsupportedObjectError     *)
(* reaches the caller after a single try to hydrate it: the version is not *)
(* cut and tried again and the conductor is not asked for a backport.      *)
(* Whatever is deserialized, the conductor is asked only about primitives  *)
(* of the namespace 'nova' with a registered name.                         *)
(***************************************************************************)
Unknown(p) == p.namespace # "nova" \/ p.name \notin DOMAIN registry

C39_UnknownNeverBackported ==
    last.op = "deserialize_entity" =>
        /\ \A i \in DOMAIN last.ret.asked :
              ~Unknown(last.ret.asked[i].objprim)
        /\ (last.arg.entity.k = "obj" /\ Unknown(last.arg.entity.prim)) =>
              /\ last.err = "UnsupportedObjectError"
              /\ last.ret.tried = <<last.arg.entity.prim.version>>
              /\ last.ret.asked = <<>>

\* an unknown name with a PATCH in its version
C39_Witness ==
    /\ last.op = "deserialize_entity"
    /\ last.arg.entity.k = "obj"
    /\ last.arg.entity.prim.name = "Ghost"
    /\ last.arg.entity.prim.namespace = "nova"
    /\ last.arg.entity.prim.version = VerP(1, 3, 1)
    /\ last.err = "UnsupportedObjectError"


(***************************************************************************)
(* C40: obj_set_defaults is not atomic.  The names are taken in the order  *)
(* given, so when the call raises ObjectActionError at a field without a   *)
(* default, every field named before it that was unset has its default    *)
(* and is marked changed, a field named before it that was set is as it    *)
(* was, and the fields not named before it are untouched.                  *)
(***************************************************************************)
\* the index of the first name without a default
FirstWithoutDefault(t, attrs) ==
    CHOOSE i \in DOMAIN attrs :
        /\ FieldDefault(t, attrs[i]) = UnspecifiedDefault
        /\ \A j \in 1..(i - 1) : FieldDefault(t, attrs[j]) # UnspecifiedDefault

C40_DefaultsNotAtomic ==
    [][(last'.op = "obj_set_defaults" /\ last'.err = "ObjectActionError")
       => LET o == last'.obj
              t == heap[o].type
              attrs == last'.arg
              k == FirstWithoutDefault(t, attrs)
              before == {attrs[i] : i \in 1..(k - 1)}
          IN /\ \A f \in before :
                   IF obj_attr_is_set(heap, o, f)
                   THEN /\ heap'[o].vals[f] = heap[o].vals[f]
                        /\ f \in heap'[o].changed <=> f \in heap[o].changed
                   ELSE /\ heap'[o].vals[f] = FieldDefault(t, f)
                        /\ f \in heap'[o].changed
             /\ \A f \in fields(t) \ before :
                   /\ heap'[o].vals[f] = heap[o].vals[f]
                   /\ f \in heap'[o].changed <=> f \in heap[o].changed
             /\ \A p \in Live(heap) \ {o} : heap'[p] = heap[p]]_vars

\* obj_set_defaults('a', 'b') on a Parent without a: a has its default,
\* and the call failed at b
C40_Witness ==
    /\ last.op = "obj_set_defaults"
    /\ last.arg = <<"a", "b">>
    /\ last.err = "ObjectActionError"
    /\ heap[last.obj].vals["a"] = IntV(0)
    /\ heap[last.obj].changed = {"a"}
    /\ ~obj_attr_is_set(heap, last.obj, "b")


=============================================================================
